---- MODULE Spec2Model ----
(***************************************************************************)
(* Model of quickjs_unity.c: the native bridge between a QuickJS instance  *)
(* and a managed host.  The callback table (js_register_callback,          *)
(* js_unregister_callback, qjs_invoke_callback, qjs_cleanup_callbacks) is  *)
(* modelled under Spec; the general invoke path (js_cs_invoke) with its    *)
(* heap allocations is modelled under SpecCs.                              *)
(***************************************************************************)
EXTENDS Integers, Sequences, FiniteSets, TLC

\* ------------------------------------------------------------- bounds ----

\* Size of the callback table.  The source sets 4096 (quickjs_unity.c:17);
\* the model scales it down, every index computation is taken modulo it.
QJS_MAX_CALLBACKS == 3

\* Size of the stack buffer the exception report is formatted into.  The
\* source sets 2048 (quickjs_unity.c:18); the model scales it down.
QJS_EXCEPTION_BUF_SIZE == 5

\* Largest argument count the host passes to qjs_invoke_callback.
MaxArgCount == 1

\* The most jobs one qjs_execute_pending_jobs finds pending.
MaxJobs == 2

\* ---------------------------------------------------------- constants ----

QJS_MAGIC == 1364413011

QJS_OK == 0
QJS_ERR_INVALID_CTX == -1
QJS_ERR_INVALID_HANDLE == -2
QJS_ERR_NOT_FUNCTION == -3
QJS_ERR_OUT_OF_MEMORY == -4
QJS_ERR_EXCEPTION == -5

INTEROP_TYPE_NULL == 0
INTEROP_TYPE_BOOL == 1
INTEROP_TYPE_INT32 == 2
INTEROP_TYPE_DOUBLE == 3
INTEROP_TYPE_STRING == 4
INTEROP_TYPE_OBJECT_HANDLE == 5
INTEROP_TYPE_INT64 == 6
INTEROP_TYPE_FLOAT32 == 7
INTEROP_TYPE_ARRAY == 8
INTEROP_TYPE_JSON_OBJECT == 9
INTEROP_TYPE_VECTOR3 == 10
INTEROP_TYPE_VECTOR4 == 11

\* ------------------------------------------------------ script values ----

\* A double is a record [v, f]: an int32 v and what is added to it: "" for
\* nothing (the double is the integer v), ".5" for one half, "+2^32" and
\* "-2^32" for the integers outside the int32 range, and with v = 0 "-0"
\* for the negative zero, "nan", "+inf" and "-inf".
Dbl(v, f) == [v |-> v, f |-> f]

\* A script value is a record [t, v, f, s, e]: t is the engine's tag, v the
\* number of a number or boolean and the identity of a function, f what
\* makes the double of a number with v, s the characters of a string, e the
\* elements of an array or the properties of an object, each a record
\* [k, val] (k is "" for an array element).
JSValue(t, v, s, e) == [t |-> t, v |-> v, f |-> "", s |-> s, e |-> e]

JS_UNDEFINED == JSValue("undefined", 0, <<>>, <<>>)
JS_NULL == JSValue("null", 0, <<>>, <<>>)
JS_SYMBOL == JSValue("symbol", 0, <<>>, <<>>)

\* A BigInt: not a number for JS_IsNumber, and neither ToNumber nor
\* JSON.stringify accepts it.
JS_BIGINT == JSValue("bigint", 0, <<>>, <<>>)

JS_NewInt32(n) == JSValue("number", n, <<>>, <<>>)

JS_NewFloat64(d) == [JSValue("number", d.v, <<>>, <<>>) EXCEPT !.f = d.f]

JS_NewBool(b) == JSValue("bool", IF b THEN 1 ELSE 0, <<>>, <<>>)

\* The script functions a program may pass to __registerCallback.
Funcs == {1, 2}

JSFunction(f) == JSValue("function", f, <<>>, <<>>)

JS_IsUndefined(v) == v.t = "undefined"

JS_IsNull(v) == v.t = "null"

JS_IsBool(v) == v.t = "bool"

JS_IsNumber(v) == v.t = "number"

JS_IsFunction(v) == v.t = "function"

JS_IsObject(v) == v.t \in {"function", "object", "array"}

JS_NewString(s) == JSValue("string", 0, s, <<>>)

JSProp(k, val) == [k |-> k, val |-> val]

JS_NewArray(elems) ==
    JSValue("array", 0, <<>>, [i \in DOMAIN elems |-> JSProp("", elems[i])])

\* An object with the properties props, a sequence of JSProp records.
JS_NewObject(props) == JSValue("object", 0, <<>>, props)

JS_IsString(v) == v.t = "string"

JS_IsArray(v) == v.t = "array"

\* JS_GetPropertyStr on the values of this model, for the names the code
\* reads other than "length": a property an object or an array does not
\* have, and any property of a function, reads undefined.
JS_GetPropertyStr(obj, name) ==
    IF obj.t \in {"object", "array"} /\ \E i \in DOMAIN obj.e : obj.e[i].k = name
    THEN obj.e[CHOOSE i \in DOMAIN obj.e : obj.e[i].k = name].val
    ELSE JS_UNDEFINED

\* The number a string of decimal digits denotes, 0 for the empty string.
RECURSIVE DigitsValue(_)
DigitsValue(s) ==
    IF s = <<>> THEN 0
    ELSE 10 * DigitsValue(SubSeq(s, 1, Len(s) - 1)) + (s[Len(s)] - 48)

\* JS_ToFloat64: ToNumber.  A number or a boolean converts to its value,
\* null to 0, a string of digits to the number it denotes, undefined, any
\* other string, a function and an object of this model to NaN; a Symbol
\* and a BigInt raise (non-zero return).
JS_ToFloat64(v) ==
    CASE v.t = "number" -> [ok |-> TRUE, d |-> Dbl(v.v, v.f)]
      [] v.t = "bool" -> [ok |-> TRUE, d |-> Dbl(v.v, "")]
      [] v.t = "null" -> [ok |-> TRUE, d |-> Dbl(0, "")]
      [] v.t = "string" /\ (\A i \in DOMAIN v.s : v.s[i] \in 48 .. 57) ->
            [ok |-> TRUE, d |-> Dbl(DigitsValue(v.s), "")]
      [] v.t \in {"symbol", "bigint"} -> [ok |-> FALSE, d |-> Dbl(0, "")]
      [] OTHER -> [ok |-> TRUE, d |-> Dbl(0, "nan")]

\* The int32 conversion of a double by the script engine: the integer part
\* modulo 2^32, 0 for NaN and the infinities.
ToInt32(d) ==
    CASE d.f = ".5" -> IF d.v >= 0 THEN d.v ELSE d.v + 1
      [] d.f \in {"", "+2^32", "-2^32"} -> d.v
      [] OTHER -> 0

\* JS_ToInt32: ToNumber then the int32 conversion.
JS_ToInt32(v) ==
    [ok |-> JS_ToFloat64(v).ok, n |-> ToInt32(JS_ToFloat64(v).d)]

\* A test every double passes.
CastAlwaysRoundTrips(d, ub) == TRUE

\* (double)(int32_t)d == d, where ub is the int32 the build produces when
\* the cast is undefined: d is NaN, an infinity or outside the int32 range.
CastRoundTrips(d, ub) ==
    CASE d.f \in {"", "-0"} -> TRUE
      [] d.f = ".5" -> FALSE
      [] OTHER -> Dbl(ub, "") = d

\* d >= INT32_MIN && d <= INT32_MAX.
InInt32Range(d) == d.f \in {"", "-0"} \/ (d.f = ".5" /\ d.v < 2147483647)

\* The spacing of the floats at the magnitude m: 1 below 2^24, doubling
\* with every binade above.
RECURSIVE Ulp(_)
Ulp(m) == IF m < 16777216 THEN 1 ELSE 2 * Ulp(m \div 2)

\* n + half/2 rounded to the nearest multiple of step, a tie to the even
\* multiple.
RoundTo(n, step, half) ==
    LET q == n \div step
        r2 == 2 * (n - q * step) + half
    IN  IF r2 < step \/ (r2 = step /\ q % 2 = 0) THEN q * step ELSE (q + 1) * step

\* (float)d, as a double again: round to nearest, ties to even, with the 24
\* bit significand of a float.  (Doubles that round to a value of magnitude
\* 2^31 + 2^32 or more are not among the values of this model.)
Float32(d) ==
    LET m == IF d.v < 0 THEN -(d.v + 1) ELSE d.v
    IN  CASE d.f = "" ->
                 IF d.v >= 2147483584 THEN Dbl(-2147483647 - 1, "+2^32")
                 ELSE Dbl(RoundTo(d.v, Ulp(m), 0), "")
          [] d.f = ".5" ->
                 IF m < 8388608 THEN d ELSE Dbl(RoundTo(d.v, Ulp(m), 1), "")
          [] d.f = "+2^32" -> Dbl(RoundTo(d.v, IF d.v < 0 THEN 256 ELSE 512, 0), d.f)
          [] d.f = "-2^32" -> Dbl(RoundTo(d.v, IF d.v > 0 THEN 256 ELSE 512, 0), d.f)
          [] OTHER -> d

\* ------------------------------------------------------------ strings ----

\* A C string is the sequence of its characters (positive numbers) before
\* the terminator; NULL is the one-element sequence holding the terminator.
NULL == <<0>>

NL == 10

\* JS_ToCString: the characters of a string, the decimal digit of a small
\* number; a Symbol raises a TypeError and the result is NULL.
JS_ToCString(v) ==
    CASE v.t = "string" -> v.s
      [] v.t = "symbol" -> NULL
      [] v.t \in {"number", "bool"} /\ v.v \in 0 .. 9 -> <<48 + v.v>>
      [] OTHER -> <<63>>

\* strdup_alloc(s): a copy of s, NULL when s is NULL or malloc fails.
strdup_alloc(s, mallocOk) == IF s = NULL \/ ~mallocOk THEN NULL ELSE s

Take(s, n) == SubSeq(s, 1, IF n < Len(s) THEN n ELSE Len(s))

\* "Unknown JS exception", the placeholder of format_exception.
UnknownException == <<85, 110, 107>>

\* "Invalid context or code", the text qjs_eval leaves for a bad instance.
InvalidContextOrCode == <<73, 110, 118>>

\* The memory at a char* of n bytes: the byte at offset i is element i + 1;
\* -1 marks a byte never written, and two more bytes follow the n.
Fresh(n) == [i \in 1 .. n + 2 |-> -1]

\* The C string the memory holds: the bytes before the first terminator
\* (all of them when there is none).
CStr(m) ==
    IF \E i \in DOMAIN m : m[i] = 0
    THEN SubSeq(m, 1, (CHOOSE i \in DOMAIN m : m[i] = 0 /\ \A j \in 1 .. i - 1 : m[j] # 0) - 1)
    ELSE m

\* strncpy(dst, src, n): n bytes are written, the characters of src and
\* then terminators.
strncpy(m, src, n) ==
    [i \in DOMAIN m |-> IF i > n THEN m[i] ELSE IF i <= Len(src) THEN src[i] ELSE 0]

\* copy_cstring(dst, dstSize, src) on the memory m at dst.
copy_cstring_to(m, dst, dstSize, src) ==
    IF dst = "NULL" \/ dstSize <= 0 THEN m
    ELSE IF src = NULL THEN [m EXCEPT ![1] = 0]
    ELSE [strncpy(m, src, dstSize - 1) EXCEPT ![dstSize] = 0]

\* copy_cstring: the content of dst after the call, for dst != NULL and
\* dstSize > 0: at most dstSize - 1 characters of src, then the terminator.
copy_cstring(dstSize, src) == CStr(copy_cstring_to(Fresh(dstSize), "buf", dstSize, src))

\* snprintf(outBuf, outBufSize, "%s\n%s", msg, stackStr), outBufSize > 0: at
\* most outBufSize - 1 characters and the terminator after them.
snprintf(m, outBufSize, msg, stackStr) ==
    LET text == Take(msg \o <<NL>> \o stackStr, outBufSize - 1)
    IN  [i \in DOMAIN m |-> IF i <= Len(text) THEN text[i]
                            ELSE IF i = Len(text) + 1 THEN 0 ELSE m[i]]

\* A format_exception that keeps the stack, not the message, when the two
\* do not fit together.
FormatStackWhenTight(m, outBufSize, msg, stackStr) ==
    LET m0 == [m EXCEPT ![1] = 0]
    IN  IF outBufSize <= 0 THEN m
        ELSE IF msg # NULL /\ stackStr # NULL /\ Len(stackStr) > 0
        THEN IF Len(msg) + 1 + Len(stackStr) + 1 <= outBufSize
             THEN snprintf(m0, outBufSize, msg, stackStr)
             ELSE copy_cstring_to(m0, "buf", outBufSize, stackStr)
        ELSE IF msg # NULL
        THEN copy_cstring_to(m0, "buf", outBufSize, msg)
        ELSE IF stackStr # NULL /\ Len(stackStr) > 0
        THEN copy_cstring_to(m0, "buf", outBufSize, stackStr)
        ELSE copy_cstring_to(m0, "buf", outBufSize, UnknownException)

\* format_exception on the memory m at outBuf, a buffer that is not NULL,
\* for an exception whose string conversion is msg (NULL when it fails) and
\* whose stack property converts to stackStr (NULL when the property is
\* undefined or null).
format_exception_to(m, outBufSize, msg, stackStr) ==
    LET m0 == [m EXCEPT ![1] = 0]
    IN  IF outBufSize <= 0 THEN m
        ELSE IF msg # NULL /\ stackStr # NULL /\ Len(stackStr) > 0
        THEN IF Len(msg) + 1 + Len(stackStr) + 1 <= outBufSize
             THEN snprintf(m0, outBufSize, msg, stackStr)
             ELSE copy_cstring_to(m0, "buf", outBufSize, msg)
        ELSE IF msg # NULL
        THEN copy_cstring_to(m0, "buf", outBufSize, msg)
        ELSE IF stackStr # NULL /\ Len(stackStr) > 0
        THEN copy_cstring_to(m0, "buf", outBufSize, stackStr)
        ELSE copy_cstring_to(m0, "buf", outBufSize, UnknownException)

\* format_exception: the content of outBuf after the call, outBufSize > 0.
format_exception(msg, stackStr, outBufSize) ==
    CStr(format_exception_to(Fresh(outBufSize), outBufSize, msg, stackStr))

\* The exceptions a script function may raise: [msg, stack] as above.
Excs == { [msg |-> <<69>>, stack |-> <<97, 116>>],
          [msg |-> <<69, 114, 114>>, stack |-> <<97, 116>>],
          [msg |-> NULL, stack |-> NULL] }

\* -------------------------------------------------------------- state ----

VARIABLES
    magic,              \* QjsContext.magic
    rt,                 \* QjsContext.rt: "rt" or "NULL"
    ctx,                \* QjsContext.ctx: "ctx" or "NULL"
    mem,                \* the QjsContext allocation: "allocated" or "freed"
    callbacks,          \* QjsContext.callbacks
    callback_next,      \* QjsContext.callback_next
    callback_count,     \* QjsContext.callback_count
    callback_free_head, \* QjsContext.callback_free_head
    g_log,              \* g_callbacks.log is set
    pc,                 \* "host", or the native call script code runs under
    cur,                \* the qjs_invoke_callback in flight: its handle, the
                        \* function it called, whether the script has
                        \* unregistered that handle since
    fnRef,              \* references the table holds on each function
    lastOp,             \* the operation the last step performed, its result
    everReg,            \* handles a register has returned on this instance
    g_invoke,           \* g_callbacks.invoke is set
    heap,               \* the heap blocks allocated and not yet freed
    csCall,             \* the js_cs_invoke in flight: its locals
    csOp,               \* the last js_cs_invoke: its result, what it
                        \* allocated and freed, in order
    g_zeroalloc,        \* g_callbacks.zeroalloc is set
    cstrs,              \* the argument positions whose string the engine
                        \* lent through JS_ToCString and has not got back
    zaCall,             \* the js_za_invoke in flight: its locals
    zaOp,               \* the last js_za_invoke: its arguments and result
    codec,              \* a value conversion: the script value, the
                        \* conversion applied, the record it left and the
                        \* script value built from the record
    evalOp,             \* the last qjs_eval: outBuf and outBufSize as
                        \* given, the memory at outBuf, and what JS_Eval
                        \* raised or returned
    g_release_handle,   \* g_callbacks.release_handle is set
    scriptOp,           \* the last console.log or __releaseHandle: its
                        \* arguments and the calls it made of the host's
                        \* log sink and release notifier, in order
    total               \* the local total of the qjs_execute_pending_jobs
                        \* in flight

tableVars == <<magic, rt, ctx, mem, callbacks, callback_next, callback_count,
               callback_free_head, g_log, pc, cur, fnRef, lastOp, everReg>>

tableVarsButPc == <<magic, rt, ctx, mem, callbacks, callback_next,
                    callback_count, callback_free_head, g_log, cur, fnRef,
                    lastOp, everReg>>

csVars == <<g_invoke, heap, csCall, csOp>>

zaVars == <<g_zeroalloc, cstrs, zaCall, zaOp>>

scriptVars == <<g_release_handle, scriptOp, total>>

\* The variables of the paths other than the callback table and js_cs_invoke.
auxVars == <<zaVars, codec, evalOp, scriptVars>>

vars == <<tableVars, csVars, auxVars>>

Slots == 0 .. (QJS_MAX_CALLBACKS - 1)

NoCall == [h |-> -1, fn |-> 0, unreg |-> FALSE]

Live(cbs) == {i \in DOMAIN cbs : ~JS_IsUndefined(cbs[i])}

TableFull == Live(callbacks) = Slots

NoExc == [msg |-> <<>>, stack |-> <<>>]

\* The record of an operation: its name, the handle it was given or
\* returned, the status a native call returned (st), what a script-side call
\* returned or threw (ret), the callable it was given (fn), whether the
\* instance pointer was valid (valid), whether the table was full when it
\* began (wasFull), how it follows the operation before it (after, see
\* RegisterAfter, UnregisterAfter and InvokeAfter), the script function it ran (called), the exception that
\* function raised (exc), the messages it passed to the log sink (log), the
\* type it left in outResult (out, -1 when it wrote none), the number of
\* references it released (released) and, for qjs_destroy, the statements
\* it executed, in order (steps).
Op(op, h, st, ret) ==
    [op |-> op, h |-> h, st |-> st, ret |-> ret, fn |-> 0, valid |-> FALSE,
     wasFull |-> TableFull, after |-> "-", called |-> 0, exc |-> NoExc,
     log |-> <<>>, out |-> -1, released |-> 0, steps |-> <<>>]

\* is_valid(instance): p is the pointer the host passes, "NULL" or "inst".
is_valid(p) == p # "NULL" /\ magic = QJS_MAGIC /\ rt # "NULL" /\ ctx # "NULL"

\* The pointers the host holds: NULL and the pointer qjs_create returned,
\* which dangles once qjs_destroy has freed the instance.
Ptrs == {"NULL", "inst"}

PtrOk(p) == p = "inst" => mem = "allocated"

\* The pointers of a host that passes NULL or an instance it has not freed.
LivePtrs == {p \in Ptrs : PtrOk(p)}

\* is_valid(instance) on a pointer to a freed instance reads instance->magic
\* in freed memory, which is undefined: where the block is still mapped the
\* read gives the 0 that qjs_destroy stored or what the allocator wrote
\* over it, the check fails and the call returns st; where free() returned
\* the block to the system the read traps and the call does not return.
ReadFreed(op, h, st, ret) ==
    \E trap \in BOOLEAN :
        /\ pc' = IF trap THEN "crashed" ELSE "host"
        /\ lastOp' = IF trap THEN Op(op, h, 0, "trap") ELSE Op(op, h, st, ret)


\* The callback table of the instance, as qjs_cleanup_callbacks receives it.
Table ==
    [ctx |-> ctx, callbacks |-> callbacks, callback_next |-> callback_next,
     callback_count |-> callback_count, callback_free_head |-> callback_free_head]

NoRefs == [f \in Funcs |-> 0]

Min(S) == CHOOSE x \in S : \A y \in S : x <= y

\* ---------------------------------------------------- callback table ----

\* A scan that takes the slot under the cursor without testing it.
ScanNoCheck(cbs, next) == next % QJS_MAX_CALLBACKS

\* A scan that tests the slot under the cursor and no other.
ScanCursorOnly(cbs, next) ==
    IF JS_IsUndefined(cbs[next % QJS_MAX_CALLBACKS])
    THEN next % QJS_MAX_CALLBACKS ELSE -1

\* A scan that takes the lowest Free slot wherever the cursor is.
ScanLowestFree(cbs, next) ==
    IF Live(cbs) = Slots THEN -1 ELSE Min(Slots \ Live(cbs))

\* The scan of js_register_callback: the first i in 0 .. N-1 whose slot
\* (next + i) % N is JS_UNDEFINED gives the slot; -1 when there is none.

ScanSlot(cbs, next) ==
    LET hits == {i \in 0 .. (QJS_MAX_CALLBACKS - 1) :
                    JS_IsUndefined(cbs[(next + i) % QJS_MAX_CALLBACKS])}
    IN  IF hits = {} THEN -1 ELSE (next + Min(hits)) % QJS_MAX_CALLBACKS

\* How a register follows the operation o before it: right after a true
\* unregister, from a table that was full or not, or after something else.
RegisterAfter(o) ==
    IF o.op = "unregister" /\ o.ret = "true"
    THEN IF o.wasFull THEN "unregister_full" ELSE "unregister"
    ELSE "-"

\* How an invoke of handle follows the operation o before it: right after
\* an invoke of the same handle that returned QJS_ERR_EXCEPTION, or not.
InvokeAfter(o, handle) ==
    IF o.op = "invoke" /\ o.st = QJS_ERR_EXCEPTION /\ o.h = handle
    THEN "exception" ELSE "-"

\* How an unregister of handle follows the operation o before it: right
\* after a true unregister of the same handle, or not.
UnregisterAfter(o, handle) ==
    IF o.op = "unregister" /\ o.ret = "true" /\ o.h = handle THEN "same" ELSE "-"

\* __registerCallback(argv[0 .. argc-1]), called by running script code.
js_register_callback(argc, arg) ==
    /\ pc \in {"eval", "call", "jobs"}
    /\ IF argc < 1 \/ ~JS_IsFunction(arg)
       THEN /\ lastOp' = [Op("register", -1, 0, "TypeError: arg must be a function")
                              EXCEPT !.after = RegisterAfter(lastOp)]
            /\ UNCHANGED <<callbacks, callback_next, callback_count,
                           callback_free_head, fnRef, everReg>>
       ELSE LET listSlot == IF callback_free_head >= 0 THEN callback_free_head ELSE -1
                slot == IF listSlot < 0 THEN ScanSlot(callbacks, callback_next)
                        ELSE listSlot
            IN  /\ callback_free_head' =
                       IF callback_free_head >= 0 THEN -1 ELSE callback_free_head
                /\ callback_next' =
                       IF listSlot < 0 /\ slot >= 0
                       THEN (slot + 1) % QJS_MAX_CALLBACKS ELSE callback_next
                /\ IF slot < 0
                   THEN /\ lastOp' = [Op("register", -1, 0, "InternalError: callback table full")
                                          EXCEPT !.fn = arg.v,
                                                 !.after = RegisterAfter(lastOp)]
                        /\ UNCHANGED <<callbacks, callback_count, fnRef, everReg>>
                   ELSE /\ callbacks' = [callbacks EXCEPT ![slot] = arg]
                        /\ fnRef' = [fnRef EXCEPT ![arg.v] = @ + 1]
                        /\ callback_count' = callback_count + 1
                        /\ everReg' = everReg \cup {slot}
                        /\ lastOp' = [Op("register", slot, 0, "ok")
                                          EXCEPT !.fn = arg.v,
                                                 !.after = RegisterAfter(lastOp)]
    /\ UNCHANGED <<magic, rt, ctx, mem, g_log, pc, cur>>
    /\ UNCHANGED <<csVars, auxVars>>

\* The checks without the test that the slot holds a function.
UnregisterNoLiveCheck(argc, conv, cbs) ==
    argc < 1 \/ ~conv.ok \/ conv.n < 0 \/ conv.n >= QJS_MAX_CALLBACKS

\* The checks with the lower bound of the range off by one.
UnregisterRejectsZero(argc, conv, cbs) ==
    \/ argc < 1
    \/ ~conv.ok
    \/ conv.n <= 0 \/ conv.n >= QJS_MAX_CALLBACKS
    \/ JS_IsUndefined(cbs[conv.n])

\* The checks of js_unregister_callback: TRUE when the call returns JS_FALSE.

UnregisterRejects(argc, conv, cbs) ==
    \/ argc < 1
    \/ ~conv.ok
    \/ conv.n < 0 \/ conv.n >= QJS_MAX_CALLBACKS
    \/ JS_IsUndefined(cbs[conv.n])

\* __unregisterCallback(argv[0 .. argc-1]), called by running script code.
js_unregister_callback(argc, arg) ==
    /\ pc \in {"eval", "call", "jobs"}
    /\ LET conv == JS_ToInt32(arg)
           handle == IF argc < 1 \/ ~conv.ok THEN -1 ELSE conv.n
       IN  IF UnregisterRejects(argc, conv, callbacks)
           THEN /\ lastOp' = [Op("unregister", handle, 0, "false") EXCEPT
                                 !.after = UnregisterAfter(lastOp, handle)]
                /\ UNCHANGED <<callbacks, callback_count, fnRef, cur>>
           ELSE /\ fnRef' = [fnRef EXCEPT ![callbacks[handle].v] = @ - 1]
                /\ callbacks' = [callbacks EXCEPT ![handle] = JS_UNDEFINED]
                /\ callback_count' = callback_count - 1
                /\ lastOp' = [Op("unregister", handle, 0, "true") EXCEPT
                                 !.after = UnregisterAfter(lastOp, handle)]
                /\ cur' = IF pc = "call" /\ handle = cur.h
                          THEN [cur EXCEPT !.unreg = TRUE] ELSE cur
    /\ UNCHANGED <<magic, rt, ctx, mem, callback_next, callback_free_head,
                   g_log, pc, everReg>>
    /\ UNCHANGED <<csVars, auxVars>>

\* The loop of qjs_cleanup_callbacks from slot i on: cbs are the slots so
\* far, freed counts the JS_FreeValue calls made on each function.
RECURSIVE CleanupLoop(_, _, _)
CleanupLoop(i, cbs, freed) ==
    IF i >= QJS_MAX_CALLBACKS THEN [callbacks |-> cbs, freed |-> freed]
    ELSE IF ~JS_IsUndefined(cbs[i])
         THEN CleanupLoop(i + 1, [cbs EXCEPT ![i] = JS_UNDEFINED],
                          [freed EXCEPT ![cbs[i].v] = @ + 1])
         ELSE CleanupLoop(i + 1, cbs, freed)

\* A cleanup that releases the references and leaves the slots as they are.
CleanupKeepsSlots(t) ==
    [t |-> [t EXCEPT !.callback_count = 0, !.callback_free_head = -1],
     freed |-> CleanupLoop(0, t.callbacks, NoRefs).freed]

\* qjs_cleanup_callbacks(qctx) on table t: the table it leaves and the
\* references it released.
qjs_cleanup_callbacks(t) ==
    IF t.ctx = "NULL" THEN [t |-> t, freed |-> NoRefs]
    ELSE LET r == CleanupLoop(0, t.callbacks, NoRefs)
         IN  [t |-> [t EXCEPT !.callbacks = r.callbacks,
                              !.callback_count = 0,
                              !.callback_free_head = -1],
              freed |-> r.freed]

\* The statements of the loop of qjs_cleanup_callbacks from slot i on: one
\* JS_FreeValue per slot that is not undefined, in slot order.
RECURSIVE CleanupSteps(_, _)
CleanupSteps(i, cbs) ==
    IF i >= QJS_MAX_CALLBACKS THEN <<>>
    ELSE (IF ~JS_IsUndefined(cbs[i])
          THEN << [step |-> "JS_FreeValue", slot |-> i] >> ELSE <<>>)
         \o CleanupSteps(i + 1, cbs)

Step(name) == [step |-> name, slot |-> -1]

\* The statements qjs_destroy executes on the valid instance with table t.
DestroySteps(t) ==
    << Step("magic = 0") >>
    \o (IF t.ctx = "NULL" THEN <<>> ELSE CleanupSteps(0, t.callbacks))
    \o << Step("ctx = NULL"), Step("rt = NULL"), Step("JS_FreeContext"),
          Step("JS_FreeRuntime"), Step("free") >>

RECURSIVE SumOver(_, _)
SumOver(f, S) ==
    IF S = {} THEN 0
    ELSE LET x == CHOOSE x \in S : TRUE IN f[x] + SumOver(f, S \ {x})

\* qjs_destroy(instance)
qjs_destroy(p) ==
    /\ pc = "host"
    /\ IF ~PtrOk(p)
       THEN /\ ReadFreed("destroy", -1, 0, "noop")
            /\ UNCHANGED <<magic, rt, ctx, mem, callbacks, callback_count,
                           callback_free_head, fnRef>>
       ELSE IF ~is_valid(p)
       THEN /\ lastOp' = Op("destroy", -1, 0, "noop")
            /\ UNCHANGED <<magic, rt, ctx, mem, callbacks, callback_count,
                           callback_free_head, fnRef, pc>>
       ELSE LET r == qjs_cleanup_callbacks(Table)
            IN  /\ magic' = 0
                /\ callbacks' = r.t.callbacks
                /\ callback_count' = r.t.callback_count
                /\ callback_free_head' = r.t.callback_free_head
                /\ fnRef' = [f \in Funcs |-> fnRef[f] - r.freed[f]]
                /\ ctx' = "NULL"
                /\ rt' = "NULL"
                /\ mem' = "freed"
                /\ lastOp' = [Op("destroy", -1, 0, "freed") EXCEPT
                                 !.released = SumOver(r.freed, Funcs),
                                 !.steps = DestroySteps(Table)]
                /\ UNCHANGED pc
    /\ UNCHANGED <<callback_next, g_log, cur, everReg>>
    /\ UNCHANGED <<csVars, auxVars>>

\* A table that starts with slot 0 at the head of the free list.
InitFreeHeadZero ==
    [callbacks |-> [i \in Slots |-> JS_UNDEFINED], callback_next |-> 0,
     callback_count |-> 0, callback_free_head |-> 0]

\* qjs_init_callbacks(qctx): the table fields it leaves.
qjs_init_callbacks ==
    [callbacks |-> [i \in Slots |-> JS_UNDEFINED], callback_next |-> 0,
     callback_count |-> 0, callback_free_head |-> -1]

\* qjs_create(): a new instance, once the host has destroyed the last one.
qjs_create ==
    /\ pc = "host"
    /\ mem = "freed"
    /\ mem' = "allocated"
    /\ magic' = QJS_MAGIC
    /\ rt' = "rt"
    /\ ctx' = "ctx"
    /\ callbacks' = qjs_init_callbacks.callbacks
    /\ callback_next' = qjs_init_callbacks.callback_next
    /\ callback_count' = qjs_init_callbacks.callback_count
    /\ callback_free_head' = qjs_init_callbacks.callback_free_head
    /\ everReg' = {}
    /\ lastOp' = Op("create", -1, 0, "-")
    /\ UNCHANGED <<g_log, pc, cur, fnRef>>
    /\ UNCHANGED <<csVars, auxVars>>

\* qjs_set_cs_log_callback(cb): cb is a function pointer or NULL.
qjs_set_cs_log_callback(cb) ==
    /\ pc = "host"
    /\ g_log # cb
    /\ g_log' = cb
    /\ lastOp' = Op("set_log", -1, 0, "-")
    /\ UNCHANGED <<magic, rt, ctx, mem, callbacks, callback_next, callback_count,
                   callback_free_head, pc, cur, fnRef, everReg>>
    /\ UNCHANGED <<csVars, auxVars>>


\* ------------------------------------------------------- value codec ----

\* An InteropValue: type, the integer member of the union v (b, i32, i64,
\* handle, the length of an array), its member f64 or f32, its member str
\* (NULL when it holds none), its member vec, and typeHint.
InteropValue(type, v) ==
    [type |-> type, v |-> v, f64 |-> Dbl(0, ""), str |-> NULL,
     vec |-> [i \in 1 .. 4 |-> Dbl(0, "")], typeHint |-> NULL]

\* The text "color" try_convert_color leaves as type hint.
ColorHint == <<99, 111, 108, 111, 114>>

\* The text JSON.stringify returns for an object: a brace pair around the
\* number of its properties stands for the engine's serialisation.  It
\* raises, and there is no text, for an object with a BigInt property.
JSON_stringify(v) ==
    IF \E i \in DOMAIN v.e : v.e[i].val.t = "bigint" THEN NULL
    ELSE <<123, 48 + Len(v.e), 125>>

\* js_value_to_json: the heap copy of the serialisation, NULL when the copy
\* cannot be allocated.
js_value_to_json(v, mallocOk) == strdup_alloc(JSON_stringify(v), mallocOk)

try_get_float_prop(obj, name) ==
    LET val == JS_GetPropertyStr(obj, name)
    IN  IF JS_IsUndefined(val) THEN [ok |-> FALSE, d |-> Dbl(0, "")]
        ELSE [ok |-> JS_ToFloat64(val).ok, d |-> Float32(JS_ToFloat64(val).d)]

\* The try_convert_ functions return [ok, out]: ok is the C return value,
\* out the record they leave (the one passed in when they return 0).
\* A vector detector that does not ask for z.
Vector3NeedsOnlyXY(v, out) ==
    LET x == try_get_float_prop(v, "x")
        y == try_get_float_prop(v, "y")
    IN  IF ~x.ok \/ ~y.ok THEN [ok |-> FALSE, out |-> out]
        ELSE [ok |-> TRUE,
              out |-> [out EXCEPT !.type = INTEROP_TYPE_VECTOR3,
                                  !.vec = <<x.d, y.d, Dbl(0, ""), Dbl(0, "")>>]]

try_convert_vector3(v, out) ==
    LET x == try_get_float_prop(v, "x")
        y == try_get_float_prop(v, "y")
        z == try_get_float_prop(v, "z")
        w == try_get_float_prop(v, "w")
    IN  IF ~x.ok \/ ~y.ok \/ ~z.ok THEN [ok |-> FALSE, out |-> out]
        ELSE IF w.ok
        THEN [ok |-> TRUE,
              out |-> [out EXCEPT !.type = INTEROP_TYPE_VECTOR4,
                                  !.vec = <<x.d, y.d, z.d, w.d>>]]
        ELSE [ok |-> TRUE,
              out |-> [out EXCEPT !.type = INTEROP_TYPE_VECTOR3,
                                  !.vec = <<x.d, y.d, z.d, Dbl(0, "")>>]]

\* A colour detector that leaves no type hint.
ColorWithoutHint(v, out, mallocOk) ==
    LET r == try_get_float_prop(v, "r")
        g == try_get_float_prop(v, "g")
        b == try_get_float_prop(v, "b")
        a == try_get_float_prop(v, "a")
    IN  IF ~r.ok \/ ~g.ok \/ ~b.ok THEN [ok |-> FALSE, out |-> out]
        ELSE [ok |-> TRUE,
              out |-> [out EXCEPT
                          !.type = INTEROP_TYPE_VECTOR4,
                          !.vec = <<r.d, g.d, b.d, IF a.ok THEN a.d ELSE Dbl(1, "")>>]]

try_convert_color(v, out, mallocOk) ==
    LET r == try_get_float_prop(v, "r")
        g == try_get_float_prop(v, "g")
        b == try_get_float_prop(v, "b")
        a == try_get_float_prop(v, "a")
    IN  IF ~r.ok \/ ~g.ok \/ ~b.ok THEN [ok |-> FALSE, out |-> out]
        ELSE [ok |-> TRUE,
              out |-> [out EXCEPT
                          !.type = INTEROP_TYPE_VECTOR4,
                          !.vec = <<r.d, g.d, b.d, IF a.ok THEN a.d ELSE Dbl(1, "")>>,
                          !.typeHint = strdup_alloc(ColorHint, mallocOk)]]

try_convert_array(v, out) ==
    IF ~JS_IsArray(v) THEN [ok |-> FALSE, out |-> out]
    ELSE [ok |-> TRUE,
          out |-> [out EXCEPT !.type = INTEROP_TYPE_ARRAY,
                              !.v = Cardinality({i \in DOMAIN v.e : v.e[i].k = ""})]]

try_convert_handle(v, out) ==
    LET handleVal == JS_GetPropertyStr(v, "__csHandle")
    IN  IF JS_IsUndefined(handleVal) \/ JS_IsNull(handleVal) \/ ~JS_ToInt32(handleVal).ok
        THEN [ok |-> FALSE, out |-> out]
        ELSE [ok |-> TRUE,
              out |-> [out EXCEPT !.type = INTEROP_TYPE_OBJECT_HANDLE,
                                  !.v = JS_ToInt32(handleVal).n]]

try_convert_struct(v, out, mallocOk) ==
    LET structVal == JS_GetPropertyStr(v, "__struct")
        typeVal == JS_GetPropertyStr(v, "__type")
        hasMarker == \/ ~JS_IsUndefined(structVal) /\ ~JS_IsNull(structVal)
                     \/ ~JS_IsUndefined(typeVal) /\ ~JS_IsNull(typeVal)
        json == js_value_to_json(v, mallocOk)
    IN  IF hasMarker /\ json # NULL
        THEN [ok |-> TRUE,
              out |-> [out EXCEPT !.type = INTEROP_TYPE_STRING, !.str = json]]
        ELSE [ok |-> FALSE, out |-> out]

\* A plain-object rule without the JSON fallback.
PlainObjectNoJson(v, out, mallocOk) ==
    LET v3 == try_convert_vector3(v, out)
        col == try_convert_color(v, out, mallocOk)
    IN  IF v3.ok THEN v3 ELSE IF col.ok THEN col ELSE [ok |-> FALSE, out |-> out]

try_convert_plain_object(v, out, mallocOk) ==
    LET handleVal == JS_GetPropertyStr(v, "__csHandle")
        hasHandle == ~JS_IsUndefined(handleVal) /\ ~JS_IsNull(handleVal)
        v3 == try_convert_vector3(v, out)
        col == try_convert_color(v, out, mallocOk)
        json == js_value_to_json(v, mallocOk)
    IN  IF JS_IsFunction(v) \/ JS_IsArray(v) \/ hasHandle
        THEN [ok |-> FALSE, out |-> out]
        ELSE IF v3.ok THEN v3
        ELSE IF col.ok THEN col
        ELSE IF json # NULL
        THEN [ok |-> TRUE,
              out |-> [out EXCEPT !.type = INTEROP_TYPE_JSON_OBJECT, !.str = json]]
        ELSE [ok |-> FALSE, out |-> out]

\* interop_value_from_js(ctx, v, out): the record left in out.  mallocOk is
\* whether the allocations of this conversion succeed, ub the int32 an
\* undefined (int32_t)d produces (the calls whose numbers are all int32
\* values, for which the cast is defined, pass 0).
interop_value_from_js(v, mallocOk, ub) ==
    LET out == InteropValue(INTEROP_TYPE_NULL, 0)
        d == JS_ToFloat64(v).d
        copy == strdup_alloc(JS_ToCString(v), mallocOk)
        arr == try_convert_array(v, out)
        han == try_convert_handle(v, out)
        str == try_convert_struct(v, out, mallocOk)
        obj == try_convert_plain_object(v, out, mallocOk)
    IN  IF JS_IsNull(v) \/ JS_IsUndefined(v) THEN out
        ELSE IF JS_IsBool(v) THEN InteropValue(INTEROP_TYPE_BOOL, v.v)
        ELSE IF JS_IsNumber(v)
        THEN IF CastRoundTrips(d, ub) /\ InInt32Range(d)
             THEN InteropValue(INTEROP_TYPE_INT32, ToInt32(d))
             ELSE [out EXCEPT !.type = INTEROP_TYPE_DOUBLE, !.f64 = d]
        ELSE IF JS_IsString(v)
        THEN IF copy # NULL
             THEN [out EXCEPT !.type = INTEROP_TYPE_STRING, !.str = copy]
             ELSE out
        ELSE IF JS_IsObject(v)
        THEN IF arr.ok THEN arr.out
             ELSE IF han.ok THEN han.out
             ELSE IF str.ok THEN str.out
             ELSE IF obj.ok THEN obj.out
             ELSE out
        ELSE out

\* interop_value_to_js(ctx, v): the script value built from the record v.
interop_value_to_js(v) ==
    CASE v.type = INTEROP_TYPE_NULL -> JS_NULL
      [] v.type = INTEROP_TYPE_BOOL -> JS_NewBool(v.v # 0)
      [] v.type \in {INTEROP_TYPE_INT32, INTEROP_TYPE_INT64} -> JS_NewInt32(v.v)
      [] v.type \in {INTEROP_TYPE_FLOAT32, INTEROP_TYPE_DOUBLE} -> JS_NewFloat64(v.f64)
      [] v.type \in {INTEROP_TYPE_STRING, INTEROP_TYPE_JSON_OBJECT} ->
            IF v.str # NULL THEN JS_NewString(v.str) ELSE JS_NULL
      [] v.type = INTEROP_TYPE_OBJECT_HANDLE ->
            IF v.typeHint # NULL /\ v.typeHint # <<>>
            THEN JS_NewObject(<<JSProp("__csHandle", JS_NewInt32(v.v)),
                                JSProp("__csType", JS_NewString(v.typeHint))>>)
            ELSE JS_NewObject(<<JSProp("__csHandle", JS_NewInt32(v.v))>>)
      [] v.type = INTEROP_TYPE_VECTOR3 ->
            JS_NewObject(<<JSProp("x", JS_NewFloat64(v.vec[1])),
                           JSProp("y", JS_NewFloat64(v.vec[2])),
                           JSProp("z", JS_NewFloat64(v.vec[3]))>>)
      [] v.type = INTEROP_TYPE_VECTOR4 ->
            IF v.typeHint = ColorHint
            THEN JS_NewObject(<<JSProp("r", JS_NewFloat64(v.vec[1])),
                                JSProp("g", JS_NewFloat64(v.vec[2])),
                                JSProp("b", JS_NewFloat64(v.vec[3])),
                                JSProp("a", JS_NewFloat64(v.vec[4]))>>)
            ELSE JS_NewObject(<<JSProp("x", JS_NewFloat64(v.vec[1])),
                                JSProp("y", JS_NewFloat64(v.vec[2])),
                                JSProp("z", JS_NewFloat64(v.vec[3])),
                                JSProp("w", JS_NewFloat64(v.vec[4]))>>)
      [] OTHER -> JS_NULL

\* The heap blocks free_interop_value(v) frees, in order; owner names the
\* record (the index of an argument, -1 for a result).
Block(b, owner) == [b |-> b, i |-> owner]

free_interop_value(v, owner) ==
    (IF v.type \in {INTEROP_TYPE_STRING, INTEROP_TYPE_JSON_OBJECT} /\ v.str # NULL
     THEN <<Block("str", owner)>> ELSE <<>>) \o
    (IF v.typeHint # NULL THEN <<Block("typeHint", owner)>> ELSE <<>>)

\* The values a script function returns.
RetVals == {JS_UNDEFINED, JS_NewInt32(7), JS_NewBool(TRUE)}

\* ------------------------------------------------------- native calls ----

\* Checks that report a Free slot as an invalid handle.
InvokeChecksFreeIsInvalid(valid, callbackHandle, cbs) ==
    IF ~valid THEN QJS_ERR_INVALID_CTX
    ELSE IF callbackHandle < 0 \/ callbackHandle >= QJS_MAX_CALLBACKS
    THEN QJS_ERR_INVALID_HANDLE
    ELSE IF JS_IsUndefined(cbs[callbackHandle])
    THEN QJS_ERR_INVALID_HANDLE
    ELSE QJS_OK

\* The checks qjs_invoke_callback makes before it allocates jsArgs: the
\* status it returns, or QJS_OK when it goes on.  valid is is_valid(instance).
InvokeChecks(valid, callbackHandle, cbs) ==
    IF ~valid THEN QJS_ERR_INVALID_CTX
    ELSE IF callbackHandle < 0 \/ callbackHandle >= QJS_MAX_CALLBACKS
    THEN QJS_ERR_INVALID_HANDLE
    ELSE IF JS_IsUndefined(cbs[callbackHandle]) \/ ~JS_IsFunction(cbs[callbackHandle])
    THEN QJS_ERR_NOT_FUNCTION
    ELSE QJS_OK

\* qjs_invoke_callback(instance, callbackHandle, args, argCount, outResult)
\* up to JS_Call: the checks and the allocation of jsArgs.  args is "NULL"
\* or an array; mallocOk is whether malloc returns non-NULL.
qjs_invoke_callback(p, callbackHandle, args, argCount, mallocOk) ==
    /\ pc = "host"
    /\ LET checked == InvokeChecks(is_valid(p), callbackHandle, callbacks)
           st == IF checked # QJS_OK THEN checked
                 ELSE IF argCount > 0 /\ args # "NULL" /\ ~mallocOk
                 THEN QJS_ERR_OUT_OF_MEMORY
                 ELSE QJS_OK
       IN  IF ~PtrOk(p)
           THEN /\ ReadFreed("invoke", callbackHandle, QJS_ERR_INVALID_CTX, "-")
                /\ UNCHANGED cur
           ELSE IF st # QJS_OK
           THEN /\ lastOp' = [Op("invoke", callbackHandle, st, "-")
                                 EXCEPT !.valid = is_valid(p)]
                /\ UNCHANGED <<pc, cur>>
           ELSE /\ pc' = "call"
                /\ cur' = [h |-> callbackHandle, fn |-> callbacks[callbackHandle].v,
                           unreg |-> FALSE]
                /\ lastOp' = [Op("JS_Call", callbackHandle, 0, "-")
                                 EXCEPT !.valid = TRUE,
                                        !.after = InvokeAfter(lastOp, callbackHandle),
                                        !.called = callbacks[callbackHandle].v]
    /\ UNCHANGED <<magic, rt, ctx, mem, callbacks, callback_next, callback_count,
                   callback_free_head, g_log, fnRef, everReg>>
    /\ UNCHANGED <<csVars, auxVars>>

\* The messages the exception path passes to the log sink.
LogTwice(sink, exc) ==
    IF sink
    THEN << format_exception(exc.msg, exc.stack, QJS_EXCEPTION_BUF_SIZE),
            format_exception(exc.msg, exc.stack, QJS_EXCEPTION_BUF_SIZE) >>
    ELSE <<>>

LogException(sink, exc) ==
    IF sink
    THEN << format_exception(exc.msg, exc.stack, QJS_EXCEPTION_BUF_SIZE) >>
    ELSE <<>>

\* qjs_invoke_callback after JS_Call returned an exception: exc is the
\* pending exception, outResult is "NULL" or the host's result record.
qjs_invoke_callback_exception(exc, outResult) ==
    /\ pc = "call"
    /\ pc' = "host"
    /\ cur' = NoCall
    /\ lastOp' = [Op("invoke", cur.h, QJS_ERR_EXCEPTION, "-") EXCEPT
                     !.valid = TRUE,
                     !.after = IF lastOp.op = "JS_Call" THEN lastOp.after ELSE "-",
                     !.called = cur.fn,
                     !.exc = exc,
                     !.log = LogException(g_log, exc),
                     !.out = IF outResult # "NULL" THEN INTEROP_TYPE_NULL ELSE -1]
    /\ UNCHANGED <<magic, rt, ctx, mem, callbacks, callback_next, callback_count,
                   callback_free_head, g_log, fnRef, everReg>>
    /\ UNCHANGED <<csVars, auxVars>>

\* qjs_invoke_callback after JS_Call returned the value result.
qjs_invoke_callback_return(result, outResult) ==
    /\ pc = "call"
    /\ pc' = "host"
    /\ cur' = NoCall
    /\ lastOp' = [Op("invoke", cur.h, QJS_OK, "-") EXCEPT
                     !.valid = TRUE,
                     !.after = IF lastOp.op = "JS_Call" THEN lastOp.after ELSE "-",
                     !.called = cur.fn,
                     !.out = IF outResult # "NULL"
                             THEN interop_value_from_js(result, TRUE, 0).type ELSE -1]
    /\ UNCHANGED <<magic, rt, ctx, mem, callbacks, callback_next, callback_count,
                   callback_free_head, g_log, fnRef, everReg>>
    /\ UNCHANGED <<csVars, auxVars>>

\* The record of a qjs_eval given outBuf ("NULL" or "buf") and outBufSize,
\* before it wrote anything.
EvalOp(outBuf, outBufSize) ==
    [outBuf |-> outBuf, outBufSize |-> outBufSize, mem |-> Fresh(outBufSize),
     exc |-> NoExc, str |-> <<>>]

\* qjs_eval(instance, code, ..., outBuf, outBufSize) up to JS_Eval; code is
\* "NULL" or a text.
qjs_eval(p, code, outBuf, outBufSize) ==
    /\ pc = "host"
    /\ IF ~PtrOk(p)
       THEN /\ ReadFreed("eval", -1, QJS_ERR_INVALID_CTX, "-")
            /\ UNCHANGED evalOp
       ELSE IF ~is_valid(p) \/ code = "NULL"
       THEN /\ lastOp' = [Op("eval", -1, QJS_ERR_INVALID_CTX, "-")
                             EXCEPT !.valid = is_valid(p)]
            /\ evalOp' = [EvalOp(outBuf, outBufSize) EXCEPT
                              !.mem = copy_cstring_to(@, outBuf, outBufSize,
                                                      InvalidContextOrCode)]
            /\ UNCHANGED pc
       ELSE /\ pc' = "eval"
            /\ lastOp' = Op("JS_Eval", -1, 0, "-")
            /\ evalOp' = EvalOp(outBuf, outBufSize)
    /\ UNCHANGED <<magic, rt, ctx, mem, callbacks, callback_next, callback_count,
                   callback_free_head, g_log, cur, fnRef, everReg>>
    /\ UNCHANGED <<csVars, zaVars, codec, scriptVars>>

\* qjs_eval after JS_Eval returned: raised is whether it is an exception,
\* exc the [msg, stack] of the exception, str the string conversion of the
\* value (NULL when it fails).  With a NULL outBuf and a positive
\* outBufSize, format_exception writes outBuf[0] through the NULL pointer,
\* which is undefined: where address 0 is not writable (trap) the call does
\* not return, elsewhere the bytes land outside every buffer and the call
\* returns.
qjs_eval_return(raised, exc, str, trap) ==
    /\ pc = "eval"
    /\ IF raised /\ evalOp.outBuf = "NULL" /\ evalOp.outBufSize > 0 /\ trap
       THEN /\ pc' = "crashed"
            /\ evalOp' = [evalOp EXCEPT !.exc = exc]
            /\ UNCHANGED lastOp
       ELSE /\ pc' = "host"
            /\ lastOp' = Op("eval", -1, IF raised THEN QJS_ERR_EXCEPTION ELSE QJS_OK, "-")
            /\ evalOp' =
                  IF raised
                  THEN [evalOp EXCEPT
                           !.exc = exc,
                           !.mem = IF evalOp.outBuf = "NULL" THEN @
                                   ELSE format_exception_to(@, evalOp.outBufSize,
                                                            exc.msg, exc.stack)]
                  ELSE [evalOp EXCEPT
                           !.str = str,
                           !.mem = copy_cstring_to(@, evalOp.outBuf, evalOp.outBufSize,
                                                   IF str # NULL THEN str ELSE <<>>)]
    /\ UNCHANGED <<magic, rt, ctx, mem, callbacks, callback_next, callback_count,
                   callback_free_head, g_log, cur, fnRef, everReg>>
    /\ UNCHANGED <<csVars, zaVars, codec, scriptVars>>

\* qjs_execute_pending_jobs(instance) up to its loop.  A failed validity
\* check returns -1, the value of QJS_ERR_INVALID_CTX.
qjs_execute_pending_jobs(p) ==
    /\ pc = "host"
    /\ IF ~PtrOk(p)
       THEN /\ ReadFreed("jobs", -1, QJS_ERR_INVALID_CTX, "-")
            /\ UNCHANGED total
       ELSE IF ~is_valid(p)
       THEN /\ lastOp' = Op("jobs", -1, QJS_ERR_INVALID_CTX, "-")
            /\ UNCHANGED <<pc, total>>
       ELSE /\ pc' = "pump"
            /\ total' = 0
            /\ lastOp' = [Op("pump", -1, 0, "-") EXCEPT !.valid = TRUE]
    /\ UNCHANGED <<magic, rt, ctx, mem, callbacks, callback_next, callback_count,
                   callback_free_head, g_log, cur, fnRef, everReg>>
    /\ UNCHANGED <<csVars, zaVars, codec, evalOp, g_release_handle, scriptOp>>

\* JS_ExecutePendingJob takes a pending job and runs its script code.
JS_ExecutePendingJob ==
    /\ pc = "pump"
    /\ total < MaxJobs
    /\ pc' = "jobs"
    /\ lastOp' = [Op("JS_ExecutePendingJob", -1, 0, "-") EXCEPT !.valid = TRUE]
    /\ UNCHANGED <<magic, rt, ctx, mem, callbacks, callback_next, callback_count,
                   callback_free_head, g_log, cur, fnRef, everReg>>
    /\ UNCHANGED <<csVars, auxVars>>

\* The loop of qjs_execute_pending_jobs after JS_ExecutePendingJob returned
\* ret: 0 with no job pending, 1 after a job that ran, negative after a job
\* that threw exc.
qjs_execute_pending_jobs_loop(ret, exc) ==
    /\ pc \in {"pump", "jobs"}
    /\ pc = "pump" <=> ret = 0
    /\ IF ret < 0
       THEN /\ pc' = "host"
            /\ lastOp' = [Op("jobs", -1, -1, "-") EXCEPT
                             !.valid = TRUE, !.exc = exc,
                             !.log = LogException(g_log, exc)]
            /\ UNCHANGED total
       ELSE IF ret = 0
       THEN /\ pc' = "host"
            /\ lastOp' = [Op("jobs", -1, total, "-") EXCEPT !.valid = TRUE]
            /\ UNCHANGED total
       ELSE /\ pc' = "pump"
            /\ total' = total + 1
            /\ lastOp' = [Op("pump", -1, 0, "-") EXCEPT !.valid = TRUE]
    /\ UNCHANGED <<magic, rt, ctx, mem, callbacks, callback_next, callback_count,
                   callback_free_head, g_log, cur, fnRef, everReg>>
    /\ UNCHANGED <<csVars, zaVars, codec, evalOp, g_release_handle, scriptOp>>

\* ------------------------------------------------ console and handles ----

\* The record of a console.log or __releaseHandle called with argv: log
\* holds the strings passed to g_callbacks.log, released the handles passed
\* to g_callbacks.release_handle, each in the order of the calls.
ScriptOp(op, argv) == [op |-> op, argv |-> argv, log |-> <<>>, released |-> <<>>]

\* A console.log that passes its first argument only.
ConsoleLogFirstOnly(argv, i) ==
    IF i > 1 \/ i > Len(argv) \/ JS_ToCString(argv[i]) = NULL THEN <<>>
    ELSE <<JS_ToCString(argv[i])>>

\* The loop of js_console_log from argument i on (argv[i - 1] in C): the
\* strings passed to g_callbacks.log.
RECURSIVE ConsoleLogLoop(_, _)
ConsoleLogLoop(argv, i) ==
    IF i > Len(argv) THEN <<>>
    ELSE (IF JS_ToCString(argv[i]) # NULL THEN <<JS_ToCString(argv[i])>> ELSE <<>>)
         \o ConsoleLogLoop(argv, i + 1)

\* console.log, console.warn, console.error and console.info are the one
\* function js_console_log.
js_console_log(argv) ==
    /\ pc \in {"eval", "call", "jobs"}
    /\ scriptOp' = [ScriptOp("console", argv) EXCEPT
                        !.log = IF ~g_log THEN <<>> ELSE ConsoleLogLoop(argv, 1)]
    /\ UNCHANGED <<tableVars, csVars, zaVars, codec, evalOp, g_release_handle, total>>

\* A test that lets the handle 0 through.
ReleaseNotifiesZero(handle) == handle >= 0

\* The test js_release_handle makes of the handle before it notifies.
ReleaseNotifies(handle) == handle > 0

\* __releaseHandle(argv[0 .. argc-1])
js_release_handle(argv) ==
    LET argc == Len(argv)
        conv == JS_ToInt32(argv[1])
    IN  /\ pc \in {"eval", "call", "jobs"}
        /\ scriptOp' =
              IF argc < 1 THEN ScriptOp("release", argv)
              ELSE IF ~conv.ok THEN ScriptOp("release", argv)
              ELSE IF ReleaseNotifies(conv.n) /\ g_release_handle
              THEN [ScriptOp("release", argv) EXCEPT !.released = <<conv.n>>]
              ELSE ScriptOp("release", argv)
        /\ UNCHANGED <<tableVars, csVars, zaVars, codec, evalOp, g_release_handle, total>>

\* qjs_set_cs_release_handle_callback(cb): cb is a function pointer or NULL.
qjs_set_cs_release_handle_callback(cb) ==
    /\ pc = "host"
    /\ g_release_handle # cb
    /\ g_release_handle' = cb
    /\ UNCHANGED <<tableVars, csVars, zaVars, codec, evalOp, scriptOp, total>>

\* ----------------------------------------------------- general invoke ----

\* The heap blocks a record holds: its string payload when its type says
\* the union holds one, and its type hint.
HeldBlocks(v, owner) ==
    (IF v.type \in {INTEROP_TYPE_STRING, INTEROP_TYPE_JSON_OBJECT} /\ v.str # NULL
     THEN <<Block("str", owner)>> ELSE <<>>) \o
    (IF v.typeHint # NULL THEN <<Block("typeHint", owner)>> ELSE <<>>)

RECURSIVE FreeArgsLoop(_, _, _)
FreeArgsLoop(i, args, count) ==
    IF i >= count THEN <<>>
    ELSE free_interop_value(args[i + 1], i) \o FreeArgsLoop(i + 1, args, count)

\* A free_interop_args that frees the vector before its elements' blocks.
FreeArgsVectorFirst(vec, args, count) ==
    IF ~vec THEN <<>> ELSE <<Block("args", 0)>> \o FreeArgsLoop(0, args, count)

\* free_interop_args(args, count): the blocks freed, in order.  vec is
\* whether args is non-NULL.
free_interop_args(vec, args, count) ==
    IF ~vec THEN <<>> ELSE FreeArgsLoop(0, args, count) \o <<Block("args", 0)>>

\* The cleanup label of js_cs_invoke: the blocks freed, in order.
CsCleanup(type_name, member_name, vec, args, arg_count) ==
    (IF type_name # NULL THEN <<Block("type_name", 0)>> ELSE <<>>) \o
    (IF member_name # NULL THEN <<Block("member_name", 0)>> ELSE <<>>) \o
    free_interop_args(vec, args, arg_count)

Range(q) == {q[i] : i \in DOMAIN q}

NoCsCall ==
    [type_name |-> NULL, member_name |-> NULL, vec |-> FALSE, args |-> <<>>,
     arg_count |-> 0, retPc |-> "host"]

\* The record of a js_cs_invoke: argv is the arguments it was called
\* with, ret the error thrown ("-" for none),
\* msg the text of a host error, value the value returned, calls the number
\* of calls of g_callbacks.invoke, argCount the arg_count of the request,
\* res the result the host left,
\* alloc and freed the blocks allocated and freed, in order.
CsOp(ret) ==
    [argv |-> <<>>, ret |-> ret, msg |-> <<>>, value |-> JS_UNDEFINED,
     calls |-> 0, argCount |-> -1, alloc |-> <<>>, freed |-> <<>>,
     res |-> [error_code |-> 0, error_msg |-> NULL,
              return_value |-> InteropValue(INTEROP_TYPE_NULL, 0)]]

\* The argument count below which js_cs_invoke throws.
CsTooFewArgsFour(argc) == argc < 4

CsTooFewArgs(argc) == argc < 5

\* The text js_cs_invoke throws when the host gave no error message.
CsInvokeError == <<67, 35>>

\* js_cs_invoke up to the call of g_callbacks.invoke.  argv holds the argc
\* arguments given (the engine pads the vector with undefined); lenOk is
\* whether get_array_length succeeds, callocOk whether the calloc of the
\* vector does, dupOk[i] whether the allocations converting element i do.
js_cs_invoke(argv, lenOk, callocOk, dupOk) ==
    LET argc == Len(argv)
        Arg(i) == IF i < argc THEN argv[i + 1] ELSE JS_UNDEFINED
        type_name == JS_ToCString(Arg(0))
        member_name == JS_ToCString(Arg(1))
        names == (IF type_name # NULL THEN <<Block("type_name", 0)>> ELSE <<>>) \o
                 (IF member_name # NULL THEN <<Block("member_name", 0)>> ELSE <<>>)
        intsOk == /\ JS_ToInt32(Arg(2)).ok /\ JS_ToInt32(Arg(3)).ok
                  /\ JS_ToInt32(Arg(4)).ok
        given == argc > 5 /\ ~JS_IsUndefined(Arg(5)) /\ ~JS_IsNull(Arg(5))
        arg_count == IF given /\ JS_IsArray(Arg(5)) THEN Len(Arg(5).e) ELSE 0
        vec == arg_count > 0
        args == [i \in 1 .. arg_count |->
                    interop_value_from_js(Arg(5).e[i].val, dupOk[i], 0)]
        elems == [i \in 1 .. arg_count |-> HeldBlocks(args[i], i - 1)]
        RECURSIVE Flat(_)
        Flat(i) == IF i > arg_count THEN <<>> ELSE elems[i] \o Flat(i + 1)
        Throw(ret, alloc, freed) ==
            /\ csOp' = [CsOp(ret) EXCEPT !.argv = argv, !.alloc = alloc,
                                          !.freed = freed]
            /\ heap' = (heap \cup Range(alloc)) \ Range(freed)
            /\ UNCHANGED <<pc, csCall>>
    IN  /\ pc \in {"eval", "call"}
        /\ IF ~g_invoke
           THEN Throw("InternalError: invoke callback not set", <<>>, <<>>)
           ELSE IF CsTooFewArgs(argc)
           THEN Throw("TypeError: cs_invoke requires 5+ args", <<>>, <<>>)
           ELSE IF type_name = NULL
           THEN Throw("TypeError: typeName must be a string", names,
                      CsCleanup(type_name, member_name, FALSE, <<>>, 0))
           ELSE IF ~intsOk
           THEN Throw("TypeError: callKind/isStatic/targetHandle must be ints",
                      names, CsCleanup(type_name, member_name, FALSE, <<>>, 0))
           ELSE IF given /\ ~JS_IsArray(Arg(5))
           THEN Throw("TypeError: args must be an array", names,
                      CsCleanup(type_name, member_name, FALSE, <<>>, 0))
           ELSE IF given /\ ~lenOk
           THEN Throw("InternalError: failed to get args length", names,
                      CsCleanup(type_name, member_name, FALSE, <<>>, 0))
           ELSE IF vec /\ ~callocOk
           THEN Throw("InternalError: out of memory", names,
                      CsCleanup(type_name, member_name, FALSE, <<>>, arg_count))
           ELSE LET alloc == names \o
                             (IF vec THEN <<Block("args", 0)>> ELSE <<>>) \o Flat(1)
                IN  /\ csOp' = [CsOp("-") EXCEPT !.argv = argv, !.alloc = alloc,
                                                 !.calls = 1,
                                                 !.argCount = arg_count]
                    /\ heap' = heap \cup Range(alloc)
                    /\ csCall' = [type_name |-> type_name,
                                  member_name |-> member_name, vec |-> vec,
                                  args |-> args, arg_count |-> arg_count,
                                  retPc |-> pc]
                    /\ pc' = "cs_invoke"
        /\ UNCHANGED <<tableVarsButPc, g_invoke, auxVars>>

\* The frees js_cs_invoke makes of the host's return value after converting
\* it: the string payload of a String, and the type hint.
CsFreeResult(return_value) ==
    (IF return_value.type = INTEROP_TYPE_STRING /\ return_value.str # NULL
     THEN <<Block("str", -1)>> ELSE <<>>) \o
    (IF return_value.typeHint # NULL THEN <<Block("typeHint", -1)>> ELSE <<>>)

\* A text that is the fallback whatever the host left.
CsErrorTextFallbackOnly(error_msg) == CsInvokeError

\* The text of the error js_cs_invoke throws for a host error.
CsErrorText(error_msg) == IF error_msg # NULL THEN error_msg ELSE CsInvokeError

\* js_cs_invoke from the return of g_callbacks.invoke, which left res.
js_cs_invoke_return(res) ==
    LET hostAlloc == HeldBlocks(res.return_value, -1)
        cleanup == CsCleanup(csCall.type_name, csCall.member_name, csCall.vec,
                             csCall.args, csCall.arg_count)
        freed == IF res.error_code # 0 THEN cleanup
                 ELSE CsFreeResult(res.return_value) \o cleanup
    IN  /\ pc = "cs_invoke"
        /\ pc' = csCall.retPc
        /\ csCall' = NoCsCall
        /\ heap' = (heap \cup Range(hostAlloc)) \ Range(freed)
        /\ csOp' = IF res.error_code # 0
                   THEN [csOp EXCEPT !.ret = "InternalError: %s",
                                     !.msg = CsErrorText(res.error_msg),
                                     !.res = res,
                                     !.alloc = csOp.alloc \o hostAlloc,
                                     !.freed = freed]
                   ELSE [csOp EXCEPT !.value = interop_value_to_js(res.return_value),
                                     !.res = res,
                                     !.alloc = csOp.alloc \o hostAlloc,
                                     !.freed = freed]
        /\ UNCHANGED <<tableVarsButPc, g_invoke, auxVars>>

qjs_set_cs_invoke_callback(cb) ==
    /\ pc = "host"
    /\ g_invoke # cb
    /\ g_invoke' = cb
    /\ UNCHANGED <<tableVars, heap, csCall, csOp, auxVars>>

\* -------------------------------------------------- zero-alloc invoke ----

\* interop_value_from_js_noalloc(ctx, v, out): the record left in out; the
\* string of a String is the engine's, lent until JS_FreeCString.  mallocOk
\* is whether the strdup_alloc of try_convert_color succeeds, ub the int32
\* an undefined (int32_t)d produces.
interop_value_from_js_noalloc(v, mallocOk, ub) ==
    LET out == InteropValue(INTEROP_TYPE_NULL, 0)
        d == JS_ToFloat64(v).d
        s == JS_ToCString(v)
        handleVal == JS_GetPropertyStr(v, "__csHandle")
        v3 == try_convert_vector3(v, out)
        col == try_convert_color(v, out, mallocOk)
    IN  IF JS_IsNull(v) \/ JS_IsUndefined(v) THEN out
        ELSE IF JS_IsBool(v) THEN InteropValue(INTEROP_TYPE_BOOL, v.v)
        ELSE IF JS_IsNumber(v)
        THEN IF CastRoundTrips(d, ub) /\ InInt32Range(d)
             THEN InteropValue(INTEROP_TYPE_INT32, ToInt32(d))
             ELSE [out EXCEPT !.type = INTEROP_TYPE_DOUBLE, !.f64 = d]
        ELSE IF JS_IsString(v)
        THEN IF s # NULL THEN [out EXCEPT !.type = INTEROP_TYPE_STRING, !.str = s]
             ELSE out
        ELSE IF JS_IsObject(v)
        THEN IF ~JS_IsUndefined(handleVal) /\ ~JS_IsNull(handleVal)
             THEN IF JS_ToInt32(handleVal).ok
                  THEN [out EXCEPT !.type = INTEROP_TYPE_OBJECT_HANDLE,
                                   !.v = JS_ToInt32(handleVal).n]
                  ELSE out
             ELSE IF v3.ok THEN v3.out
             ELSE IF col.ok THEN col.out
             ELSE out
        ELSE out

\* The entry points js_za_invoke0 .. js_za_invoke8.
ZA_MAX_ARITY == 8

RECURSIVE ZaReleaseLoop(_, _, _)
ZaReleaseLoop(i, n, args) ==
    IF i >= n THEN <<>>
    ELSE (IF args[i + 1].type = INTEROP_TYPE_STRING /\ args[i + 1].str # NULL
          THEN <<i>> ELSE <<>>) \o ZaReleaseLoop(i + 1, n, args)

\* A release loop that stops one argument short.
ZaReleasedButLast(K, args) == ZaReleaseLoop(0, K - 1, args)

\* The calls of interop_value_free_string_ref js_za_invokeK makes after the
\* host returned: the positions whose string goes back to the engine, in
\* order.
ZaReleased(K, args) == ZaReleaseLoop(0, K, args)

\* An arity check that lets a call with one argument too few through.
ZaTooFewArgsOffByOne(K, argc) == argc < K

\* The arity check of js_za_invokeK: argc < K + 1.
ZaTooFewArgs(K, argc) == argc < K + 1

NoZaCall == [K |-> 0, args |-> <<>>, retPc |-> "host"]

\* The record of a js_za_invokeK: argv is the arguments it was called
\* with, cb the g_callbacks.zeroalloc it read (None before the first call),
\* ret the error thrown ("-" for none), calls the number of calls of
\* g_callbacks.zeroalloc, bindingId, args and argCount what that call was
\* given, alloc the heap blocks allocated, released the strings given back
\* to the engine, result what the host left and value the value returned.
ZaOp(K, argv, ret) ==
    [K |-> K, argv |-> argv, cb |-> IF g_zeroalloc THEN "set" ELSE "NULL",
     ret |-> ret, calls |-> 0, bindingId |-> 0,
     args |-> <<>>, argCount |-> -1, alloc |-> <<>>, released |-> <<>>,
     result |-> InteropValue(INTEROP_TYPE_NULL, 0), value |-> JS_UNDEFINED]

\* js_za_invokeK up to the call of g_callbacks.zeroalloc.  argv holds the
\* argc arguments given; mallocOk[i] is whether the allocation converting
\* argument i succeeds.
js_za_invoke(K, argv, mallocOk) ==
    LET argc == Len(argv)
        Arg(i) == IF i < argc THEN argv[i + 1] ELSE JS_UNDEFINED
        bindingId == JS_ToInt32(Arg(0))
        args == [i \in 1 .. K |-> interop_value_from_js_noalloc(Arg(i), mallocOk[i], 0)]
        hints == [i \in 1 .. K |-> IF args[i].typeHint # NULL
                                   THEN <<Block("typeHint", i - 1)>> ELSE <<>>]
        RECURSIVE Flat(_)
        Flat(i) == IF i > K THEN <<>> ELSE hints[i] \o Flat(i + 1)
        Throw(ret) ==
            /\ zaOp' = ZaOp(K, argv, ret)
            /\ UNCHANGED <<pc, zaCall, cstrs, heap>>
    IN  /\ pc \in {"eval", "call"}
        /\ IF ~g_zeroalloc
           THEN Throw("InternalError: zeroalloc callback not set")
           ELSE IF ZaTooFewArgs(K, argc)
           THEN Throw("TypeError: __zaInvokeK requires bindingId + K args")
           ELSE IF ~bindingId.ok
           THEN Throw("TypeError: bindingId must be an integer")
           ELSE /\ zaOp' = [ZaOp(K, argv, "-") EXCEPT
                                !.calls = 1, !.bindingId = bindingId.n,
                                !.args = args, !.argCount = K,
                                !.alloc = Flat(1)]
                /\ heap' = heap \cup Range(Flat(1))
                /\ cstrs' = cstrs \cup
                             {i \in 0 .. K - 1 :
                                  /\ args[i + 1].type = INTEROP_TYPE_STRING
                                  /\ args[i + 1].str # NULL}
                /\ zaCall' = [K |-> K, args |-> args, retPc |-> pc]
                /\ pc' = "za_invoke"
        /\ UNCHANGED <<tableVarsButPc, g_invoke, csCall, csOp, g_zeroalloc, codec, evalOp, scriptVars>>

\* js_za_invokeK from the return of g_callbacks.zeroalloc, which left
\* result.
js_za_invoke_return(result) ==
    LET released == ZaReleased(zaCall.K, zaCall.args)
    IN  /\ pc = "za_invoke"
        /\ pc' = zaCall.retPc
        /\ zaCall' = NoZaCall
        /\ cstrs' = cstrs \ Range(released)
        /\ zaOp' = [zaOp EXCEPT !.released = released, !.result = result,
                                !.value = interop_value_to_js(result)]
        /\ UNCHANGED <<tableVarsButPc, csVars, g_zeroalloc, codec, evalOp, scriptVars>>

qjs_set_cs_zeroalloc_callback(cb) ==
    /\ pc = "host"
    /\ g_zeroalloc # cb
    /\ g_zeroalloc' = cb
    /\ UNCHANGED <<tableVars, csVars, cstrs, zaCall, zaOp, codec, evalOp, scriptVars>>

\* -------------------------------------------------- value conversions ----

\* The conversions of the value held in codec: interop_value_from_js,
\* interop_value_from_js_noalloc, and interop_value_to_js of the record
\* either left.
ValueFromScript(mallocOk, ub) ==
    /\ codec.path = "-"
    /\ codec' = [codec EXCEPT !.path = "general", !.mallocOk = mallocOk,
                              !.out = interop_value_from_js(codec.v, mallocOk, ub)]
    /\ UNCHANGED <<tableVars, csVars, zaVars, evalOp, scriptVars>>

ValueFromScriptNoalloc(mallocOk, ub) ==
    /\ codec.path = "-"
    /\ codec' = [codec EXCEPT !.path = "noalloc", !.mallocOk = mallocOk,
                              !.out = interop_value_from_js_noalloc(codec.v, mallocOk, ub)]
    /\ UNCHANGED <<tableVars, csVars, zaVars, evalOp, scriptVars>>

ValueToScript ==
    /\ codec.path # "-" /\ ~codec.done
    /\ codec' = [codec EXCEPT !.back = interop_value_to_js(codec.out), !.done = TRUE]
    /\ UNCHANGED <<tableVars, csVars, zaVars, evalOp, scriptVars>>

\* interop_value_to_js of the record the host gave (codec.rec): the script
\* value it builds is the one the conversions above then start from.
RecordToScript ==
    /\ codec.path = "host"
    /\ codec' = [codec EXCEPT !.v = interop_value_to_js(codec.rec), !.path = "-"]
    /\ UNCHANGED <<tableVars, csVars, zaVars, evalOp, scriptVars>>

\* ------------------------------------------------------ specification ----

\* The arguments script code passes to __registerCallback.
RegisterArgs == {JSFunction(f) : f \in Funcs} \cup {JS_UNDEFINED, JS_NewInt32(0)}

\* The arguments script code passes to __unregisterCallback.
UnregisterArgs ==
    {JS_NewInt32(n) : n \in -1 .. QJS_MAX_CALLBACKS} \cup {JS_SYMBOL}

\* The argument arrays the host passes to qjs_invoke_callback, and whether
\* the malloc of jsArgs succeeds (it is called only for argCount > 0 with
\* args given).
InvokeArgs ==
    {[args |-> "NULL", argCount |-> 0, mallocOk |-> TRUE]} \cup
    [args : {"NULL", "args"}, argCount : {MaxArgCount}, mallocOk : {TRUE}] \cup
    [args : {"args"}, argCount : {MaxArgCount}, mallocOk : {FALSE}]

\* The handles the host passes with instance pointer p: with NULL the
\* handle is never read.
InvokeHandles(p) == IF p = "NULL" THEN {0} ELSE -1 .. QJS_MAX_CALLBACKS

\* The state qjs_create returns.
\* A conversion of the script value v not yet made.
Codec(v) ==
    [v |-> v, path |-> "-", mallocOk |-> TRUE,
     out |-> InteropValue(INTEROP_TYPE_NULL, 0), back |-> JS_UNDEFINED,
     done |-> FALSE, rec |-> InteropValue(INTEROP_TYPE_NULL, 0)]

InitButCodec ==
    /\ magic = QJS_MAGIC
    /\ rt = "rt"
    /\ ctx = "ctx"
    /\ mem = "allocated"
    /\ callbacks = qjs_init_callbacks.callbacks
    /\ callback_next = qjs_init_callbacks.callback_next
    /\ callback_count = qjs_init_callbacks.callback_count
    /\ callback_free_head = qjs_init_callbacks.callback_free_head
    /\ g_log = FALSE
    /\ pc = "host"
    /\ cur = NoCall
    /\ fnRef = NoRefs
    /\ lastOp = Op("create", -1, 0, "-")
    /\ everReg = {}
    /\ g_invoke = FALSE
    /\ heap = {}
    /\ csCall = NoCsCall
    /\ csOp = CsOp("-")
    /\ g_zeroalloc = FALSE
    /\ cstrs = {}
    /\ zaCall = NoZaCall
    /\ zaOp = [ZaOp(0, <<>>, "-") EXCEPT !.cb = "None"]
    /\ evalOp = EvalOp("NULL", 0)
    /\ g_release_handle = FALSE
    /\ scriptOp = ScriptOp("-", <<>>)
    /\ total = 0

Init == InitButCodec /\ codec = Codec(JS_UNDEFINED)

Next ==
    \/ \E arg \in RegisterArgs : js_register_callback(1, arg)
    \/ js_register_callback(0, JS_UNDEFINED)
    \/ \E arg \in UnregisterArgs : js_unregister_callback(1, arg)
    \/ js_unregister_callback(0, JS_UNDEFINED)
    \/ \E p \in LivePtrs : \E h \in InvokeHandles(p), a \in InvokeArgs :
          qjs_invoke_callback(p, h, a.args, a.argCount, a.mallocOk)
    \/ \E exc \in Excs, outResult \in {"NULL", "out"} :
          qjs_invoke_callback_exception(exc, outResult)
    \/ \E result \in RetVals, outResult \in {"NULL", "out"} :
          qjs_invoke_callback_return(result, outResult)
    \/ \E p \in LivePtrs, code \in {"NULL", "code"} : qjs_eval(p, code, "NULL", 0)
    \/ \E raised \in BOOLEAN : qjs_eval_return(raised, NoExc, <<>>, TRUE)
    \/ \E p \in LivePtrs : qjs_destroy(p)
    \/ qjs_create
    \/ \E cb \in BOOLEAN : qjs_set_cs_log_callback(cb)

Spec == Init /\ [][Next]_vars

\* The elements of the argument array script code passes to __cs_invoke: a
\* number, a string, a colour and a plain object.
CsElems ==
    {JS_NewInt32(3), JS_NewString(<<115>>),
     JS_NewObject(<<JSProp("r", JS_NewInt32(1)), JSProp("g", JS_NewInt32(0)),
                    JSProp("b", JS_NewInt32(0))>>),
     JS_NewObject(<<JSProp("k", JS_NewInt32(1))>>)}

CsArrays ==
    UNION {[1 .. n -> CsElems] : n \in 0 .. MaxArgCount}

\* Five mandatory arguments that convert.
CsGoodArgs ==
    <<JS_NewString(<<84>>), JS_NewString(<<109>>), JS_NewInt32(1), JS_NewInt32(0),
      JS_NewInt32(0)>>

\* The five mandatory arguments: all converting, or one of them a Symbol.
CsMandatory ==
    {CsGoodArgs} \cup {[CsGoodArgs EXCEPT ![i] = JS_SYMBOL] : i \in {1, 2, 3, 5}}

AllOk == [i \in 1 .. MaxArgCount |-> TRUE]

CsCall(argv, lenOk, callocOk, dupOk) ==
    [argv |-> argv, lenOk |-> lenOk, callocOk |-> callocOk, dupOk |-> dupOk]

\* The calls script code makes of __cs_invoke: the argument vector, and
\* whether get_array_length, the calloc of the vector and the allocations
\* converting each element succeed.  A failure is drawn only where the code
\* reaches the call that fails.
CsCalls ==
    {CsCall(SubSeq(a, 1, n), TRUE, TRUE, AllOk) : a \in CsMandatory, n \in 0 .. 5} \cup
    {CsCall(a \o <<x>>, TRUE, TRUE, AllOk) :
         a \in CsMandatory,
         x \in {JS_UNDEFINED, JS_NULL, JS_NewInt32(5),
                JS_NewObject(<<JSProp("k", JS_NewInt32(1))>>), JS_NewArray(<<>>)}} \cup
    {CsCall(CsGoodArgs \o <<JS_NewArray(e)>>, TRUE, TRUE, dupOk) :
         e \in CsArrays, dupOk \in [1 .. MaxArgCount -> BOOLEAN]} \cup
    {CsCall(CsGoodArgs \o <<JS_NewArray(e)>>, ok, ~ok, AllOk) :
         e \in CsArrays, ok \in BOOLEAN}

\* The values the host leaves in res.return_value.
CsReturnValues ==
    {InteropValue(INTEROP_TYPE_NULL, 0), InteropValue(INTEROP_TYPE_INT32, 7),
     [InteropValue(INTEROP_TYPE_STRING, 0) EXCEPT !.str = <<115>>],
     InteropValue(INTEROP_TYPE_STRING, 0),
     [InteropValue(INTEROP_TYPE_JSON_OBJECT, 0) EXCEPT !.str = <<123, 125>>],
     [InteropValue(INTEROP_TYPE_OBJECT_HANDLE, 4) EXCEPT !.typeHint = <<84>>]}

\* The results the host leaves in res: a message comes with an error code.
CsResults ==
    [error_code : {0}, error_msg : {NULL}, return_value : CsReturnValues] \cup
    [error_code : {1}, error_msg : {NULL, <<101>>}, return_value : CsReturnValues]

NextCs ==
    \/ \E p \in LivePtrs, code \in {"NULL", "code"} : qjs_eval(p, code, "NULL", 0)
    \/ \E raised \in BOOLEAN : qjs_eval_return(raised, NoExc, <<>>, TRUE)
    \/ \E cb \in BOOLEAN : qjs_set_cs_invoke_callback(cb)
    \/ \E c \in CsCalls : js_cs_invoke(c.argv, c.lenOk, c.callocOk, c.dupOk)
    \/ \E res \in CsResults : js_cs_invoke_return(res)

SpecCs == Init /\ [][NextCs]_vars

ZaColour ==
    JS_NewObject(<<JSProp("r", JS_NewInt32(1)), JSProp("g", JS_NewInt32(0)),
                   JSProp("b", JS_NewInt32(0))>>)

\* The arguments script code passes to __zaInvokeK after the binding id: a
\* number, a string, a boolean, a vector, an object handle and a plain
\* object.
ZaElems ==
    {JS_NewInt32(3), JS_NewString(<<115>>), JS_NewBool(TRUE),
     JS_NewObject(<<JSProp("x", JS_NewInt32(1)), JSProp("y", JS_NewInt32(2)),
                    JSProp("z", JS_NewInt32(3))>>),
     JS_NewObject(<<JSProp("__csHandle", JS_NewInt32(4))>>),
     JS_NewObject(<<JSProp("k", JS_NewInt32(1))>>)}

\* The arguments after the binding id that hold the number of the position
\* at every position but p, which holds a string (p = 0: at none).
ZaPositional(n, p) ==
    [i \in 1 .. n |-> IF i = p THEN JS_NewString(<<115>>) ELSE JS_NewInt32(i)]

ZaAllOk == [i \in 1 .. ZA_MAX_ARITY |-> TRUE]

\* The arguments after the binding id that hold a colour first and the
\* number of the position after it.
ZaColours(K) == [i \in 1 .. K |-> IF i = 1 THEN ZaColour ELSE JS_NewInt32(i)]

\* The calls script code makes of __zaInvokeK: no argument at all, one
\* argument too few, K arguments of one kind, with a string at one position
\* or with a colour, one argument more, a binding id that does not convert,
\* and a colour whose type hint cannot be allocated.
ZaCallsOf(K) ==
    {[K |-> K, argv |-> a, mallocOk |-> ZaAllOk] :
         a \in {<<>>, <<JS_SYMBOL>> \o ZaPositional(K, K),
                <<JS_NewInt32(7)>> \o ZaPositional(K + 1, K + 1)} \cup
               {<<JS_NewInt32(7)>> \o ZaPositional(K - 1, K - 1) : n \in {K} \ {0}} \cup
               {<<JS_NewInt32(7)>> \o [i \in 1 .. K |-> e] : e \in ZaElems} \cup
               {<<JS_NewInt32(7)>> \o ZaPositional(K, p) : p \in 1 .. K} \cup
               {<<JS_NewInt32(7)>> \o ZaColours(K)}} \cup
    {[K |-> K, argv |-> <<JS_NewInt32(7)>> \o ZaColours(K),
      mallocOk |-> [i \in 1 .. ZA_MAX_ARITY |-> FALSE]]}

ZaCalls == UNION {ZaCallsOf(K) : K \in 0 .. ZA_MAX_ARITY}

\* The results the host leaves in the result record.
ZaResults ==
    {InteropValue(INTEROP_TYPE_NULL, 0), InteropValue(INTEROP_TYPE_INT32, 7),
     [InteropValue(INTEROP_TYPE_STRING, 0) EXCEPT !.str = <<115>>]}

NextZa ==
    \/ qjs_eval("inst", "code", "NULL", 0)
    \/ \E raised \in BOOLEAN : qjs_eval_return(raised, NoExc, <<>>, TRUE)
    \/ \E cb \in BOOLEAN : qjs_set_cs_zeroalloc_callback(cb)
    \/ \E c \in ZaCalls : js_za_invoke(c.K, c.argv, c.mallocOk)
    \/ \E result \in ZaResults : js_za_invoke_return(result)

SpecZa == Init /\ [][NextZa]_vars

\* The largest outBufSize the host passes.
MaxOutBufSize == 6

\* What JS_Eval raises or returns: an exception with or without a message
\* and a stack, each empty, short or long, or a value with its string
\* conversion.
EvalOutcomes ==
    {[raised |-> TRUE, exc |-> [msg |-> m, stack |-> st], str |-> <<>>] :
         m \in {NULL, <<>>, <<69>>, <<69, 114, 114>>},
         st \in {NULL, <<>>, <<97, 116>>, <<97, 116, 32, 120>>}} \cup
    {[raised |-> FALSE, exc |-> NoExc, str |-> str] :
         str \in {NULL, <<>>, <<55>>, <<117, 110, 100, 101, 102, 105, 110>>}}

NextEval ==
    \/ \E p \in LivePtrs, code \in {"NULL", "code"}, outBuf \in {"NULL", "buf"},
          outBufSize \in 0 .. MaxOutBufSize : qjs_eval(p, code, outBuf, outBufSize)
    \/ \E o \in EvalOutcomes, trap \in BOOLEAN :
          qjs_eval_return(o.raised, o.exc, o.str, trap)

SpecEval == Init /\ [][NextEval]_vars

INT32_MAX == 2147483647
INT32_MIN == -INT32_MAX - 1

\* The numbers converted: int32 values with the two ends of the range, an
\* integer no float holds, halves, the integers next to the range, the
\* negative zero, NaN and the infinities.
CodecNumbers ==
    {Dbl(n, "") : n \in {0, 1, -1, 7, 16777217, INT32_MAX, INT32_MIN}} \cup
    {Dbl(n, ".5") : n \in {0, -2, 8388608, INT32_MAX - 1, INT32_MAX, INT32_MIN}} \cup
    {Dbl(INT32_MIN, "+2^32"), Dbl(0, "+2^32"), Dbl(INT32_MAX, "-2^32"),
     Dbl(0, "-0"), Dbl(0, "nan"), Dbl(0, "+inf"), Dbl(0, "-inf")}

\* The int32 values an undefined (int32_t)d produces: the integer
\* indefinite of x86, and the saturated values and the 0 of ARM.
CastOutcomes == {INT32_MIN, 0, INT32_MAX}

\* The sequences of properties that give each name of names, in order, the
\* number of its position from first on, for every subset of the names.
RECURSIVE PropSubsets(_, _)
PropSubsets(names, first) ==
    IF names = <<>> THEN {<<>>}
    ELSE LET rest == PropSubsets(Tail(names), first + 1)
         IN  rest \cup {<<JSProp(Head(names), JS_NewInt32(first))>> \o r : r \in rest}

\* Properties that mark an object: a handle, a handle that does not
\* convert, a null handle, a struct marker of either name, a handle with a
\* struct marker.
CodecMarkers ==
    {<<>>, <<JSProp("__csHandle", JS_NewInt32(4))>>,
     <<JSProp("__csHandle", JS_SYMBOL)>>, <<JSProp("__csHandle", JS_NULL)>>,
     <<JSProp("__struct", JS_NewBool(TRUE))>>,
     <<JSProp("__type", JS_NewString(<<115>>))>>,
     <<JSProp("__csHandle", JS_NewInt32(4)), JSProp("__struct", JS_NewBool(TRUE))>>}

\* Objects whose properties are numbers or absent, with and without a
\* property JSON.stringify cannot serialise.
CodecObjects ==
    {JS_NewObject(m \o xs \o cs \o k) :
         m \in CodecMarkers,
         xs \in PropSubsets(<<"x", "y", "z", "w">>, 1),
         cs \in {<<>>} \cup {c \in PropSubsets(<<"r", "g", "b", "a">>, 5) : Len(c) >= 3},
         k \in {<<>>, <<JSProp("k", JS_NewInt32(9))>>, <<JSProp("k", JS_BIGINT)>>}}

\* Objects whose x, y, z, w, r, g, b, a are not all numbers, or numbers no
\* float holds.
CodecOddObjects ==
    {JS_NewObject(<<JSProp("x", JS_NewString(<<115>>)), JSProp("y", JS_NULL),
                    JSProp("z", JS_NewBool(TRUE))>>),
     JS_NewObject(<<JSProp("x", JS_SYMBOL), JSProp("y", JS_NewInt32(2)),
                    JSProp("z", JS_NewInt32(3)), JSProp("r", JS_NewInt32(5)),
                    JSProp("g", JS_NewInt32(6)), JSProp("b", JS_NewInt32(7))>>),
     JS_NewObject(<<JSProp("x", JS_NewInt32(1)), JSProp("y", JS_NewInt32(2)),
                    JSProp("z", JS_NewInt32(3)), JSProp("w", JS_SYMBOL)>>),
     JS_NewObject(<<JSProp("x", JS_NewInt32(1)), JSProp("y", JS_NewInt32(2)),
                    JSProp("z", JS_NewInt32(3)), JSProp("w", JS_NewString(<<115>>))>>),
     JS_NewObject(<<JSProp("r", JS_NewInt32(5)), JSProp("g", JS_NewInt32(6)),
                    JSProp("b", JS_NewInt32(7)), JSProp("a", JS_BIGINT)>>),
     JS_NewObject(<<JSProp("x", JS_NewFloat64(Dbl(0, ".5"))),
                    JSProp("y", JS_NewInt32(16777217)),
                    JSProp("z", JS_NewFloat64(Dbl(0, "-0"))),
                    JSProp("w", JS_NewFloat64(Dbl(INT32_MIN, "+2^32")))>>),
     JS_NewObject(<<JSProp("r", JS_NewFloat64(Dbl(8388608, ".5"))),
                    JSProp("g", JS_NewInt32(INT32_MAX)),
                    JSProp("b", JS_NewFloat64(Dbl(0, "nan")))>>)}

\* Arrays, with and without the properties the later rules look for.
CodecArrays ==
    {[JS_NewArray(elems) EXCEPT !.e = @ \o props] :
         elems \in {<<>>, <<JS_NewInt32(1), JS_NewInt32(2)>>},
         props \in {<<>>, <<JSProp("__csHandle", JS_NewInt32(4))>>,
                    <<JSProp("__struct", JS_NewBool(TRUE))>>,
                    <<JSProp("x", JS_NewInt32(1)), JSProp("y", JS_NewInt32(2)),
                      JSProp("z", JS_NewInt32(3))>>,
                    <<JSProp("r", JS_NewInt32(5)), JSProp("g", JS_NewInt32(6)),
                      JSProp("b", JS_NewInt32(7))>>}}

\* The script values converted.
CodecInputs ==
    {JS_NewFloat64(d) : d \in CodecNumbers} \cup
    {JS_UNDEFINED, JS_NULL, JS_SYMBOL, JS_BIGINT, JS_NewBool(TRUE), JS_NewBool(FALSE),
     JS_NewString(<<115>>), JS_NewString(<<>>), JSFunction(1)} \cup
    CodecObjects \cup CodecOddObjects \cup CodecArrays

InitCodec == InitButCodec /\ codec \in {Codec(v) : v \in CodecInputs}

NextCodec ==
    \/ \E mallocOk \in BOOLEAN, ub \in CastOutcomes : ValueFromScript(mallocOk, ub)
    \/ \E mallocOk \in BOOLEAN, ub \in CastOutcomes : ValueFromScriptNoalloc(mallocOk, ub)
    \/ ValueToScript

SpecCodec == InitCodec /\ [][NextCodec]_vars


\* The most arguments script code passes to console.log.
MaxLogArgs == 2

\* The arguments of console.log: a string, the empty string, a number and
\* a Symbol, which has no string conversion.
LogElems == {JS_NewString(<<97>>), JS_NewString(<<>>), JS_NewInt32(5), JS_SYMBOL}

LogArgs == UNION {[1 .. n -> LogElems] : n \in 0 .. MaxLogArgs}

\* The arguments of __releaseHandle: none, int32 handles of either sign,
\* numbers that are not int32 values, values that convert to a number, a
\* Symbol, which does not, and a second argument.
ReleaseArgs ==
    {<<>>, <<JS_SYMBOL>>, <<JS_NULL>>, <<JS_UNDEFINED>>, <<JS_NewBool(TRUE)>>,
     <<JS_NewString(<<55>>)>>, <<JS_NewInt32(5), JS_NewInt32(6)>>} \cup
    {<<JS_NewInt32(h)>> : h \in {-1, 0, 1, 7, INT32_MAX, INT32_MIN}} \cup
    {<<JS_NewFloat64(d)>> : d \in {Dbl(1, ".5"), Dbl(0, ".5"), Dbl(1, "+2^32"),
                                    Dbl(INT32_MIN, "+2^32"), Dbl(0, "nan")}}

NextScript ==
    \/ \E p \in LivePtrs, code \in {"NULL", "code"} : qjs_eval(p, code, "NULL", 0)
    \/ \E raised \in BOOLEAN : qjs_eval_return(raised, NoExc, <<>>, TRUE)
    \/ \E cb \in BOOLEAN : qjs_set_cs_log_callback(cb)
    \/ \E cb \in BOOLEAN : qjs_set_cs_release_handle_callback(cb)
    \/ \E argv \in LogArgs : js_console_log(argv)
    \/ \E argv \in ReleaseArgs : js_release_handle(argv)

SpecScript == Init /\ [][NextScript]_vars

\* The instance over its life: the host creates and destroys it and passes
\* its pointer, NULL or the pointer of the instance it has destroyed to
\* every entry point that takes one.
NextLife ==
    \/ \E f \in Funcs : js_register_callback(1, JSFunction(f))
    \/ \E h \in Slots : js_unregister_callback(1, JS_NewInt32(h))
    \/ \E p \in Ptrs, h \in -1 .. QJS_MAX_CALLBACKS :
          qjs_invoke_callback(p, h, "NULL", 0, TRUE)
    \/ qjs_invoke_callback_exception(NoExc, "NULL")
    \/ qjs_invoke_callback_return(JS_UNDEFINED, "NULL")
    \/ \E p \in Ptrs, code \in {"NULL", "code"} : qjs_eval(p, code, "NULL", 0)
    \/ \E raised \in BOOLEAN : qjs_eval_return(raised, NoExc, <<>>, TRUE)
    \/ \E p \in Ptrs : qjs_execute_pending_jobs(p)
    \/ JS_ExecutePendingJob
    \/ \E ret \in {-1, 0, 1}, exc \in Excs : qjs_execute_pending_jobs_loop(ret, exc)
    \/ \E p \in Ptrs : qjs_destroy(p)
    \/ qjs_create
    \/ \E cb \in BOOLEAN : qjs_set_cs_log_callback(cb)

SpecLife == Init /\ [][NextLife]_vars

\* The components of the vectors the host gives: values a float holds.
RoundFloats == {Dbl(0, ""), Dbl(1, ""), Dbl(-2, ".5"), Dbl(0, "nan")}

RoundFloats4 == {Dbl(1, ""), Dbl(0, "-0"), Dbl(0, "+inf")}

\* The records the host gives: object handles with and without a type
\* name, Vector3 (the fourth float is not part of it and may hold
\* anything), and Vector4 with no hint and with the hint "color".
RoundInputs ==
    {[InteropValue(INTEROP_TYPE_OBJECT_HANDLE, h) EXCEPT !.typeHint = t] :
         h \in {0, 1, -1, 7, INT32_MAX, INT32_MIN}, t \in {NULL, <<84>>}} \cup
    {[InteropValue(INTEROP_TYPE_VECTOR3, 0) EXCEPT !.vec = <<x, y, z, w>>] :
         x \in RoundFloats, y \in RoundFloats, z \in RoundFloats,
         w \in {Dbl(0, ""), Dbl(1, "")}} \cup
    {[InteropValue(INTEROP_TYPE_VECTOR4, 0) EXCEPT !.vec = <<x, y, z, w>>, !.typeHint = t] :
         x \in RoundFloats4, y \in RoundFloats4, z \in RoundFloats4,
         w \in RoundFloats4, t \in {NULL, ColorHint}}

InitRound ==
    InitButCodec /\
    codec \in {[Codec(JS_UNDEFINED) EXCEPT !.rec = v, !.path = "host"] : v \in RoundInputs}

NextRound ==
    \/ RecordToScript
    \/ \E mallocOk \in BOOLEAN : ValueFromScript(mallocOk, 0)

SpecRound == InitRound /\ [][NextRound]_vars

\* ------------------------------------------------------------- claims ----

\* The references the table holds on each function are those of the slots
\* that hold it: one JS_DupValue per Live slot, none released or lost.
RefsMatchSlots ==
    \A f \in Funcs :
        fnRef[f] = Cardinality({i \in Slots : callbacks[i] = JSFunction(f)})

RegisterStep == lastOp'.op = "register"

RegisterOk == lastOp'.op = "register" /\ lastOp'.ret = "ok"

UnregisterStep == lastOp'.op = "unregister"

\* A step in which the host calls qjs_invoke_callback.
InvokeStep == pc = "host" /\ lastOp'.op \in {"invoke", "JS_Call"}

\* C1: a successful register never returns a handle whose slot is Live, so
\* it never overwrites a held function reference (every Live slot keeps
\* exactly the one reference taken for it), and the number of Live slots
\* never exceeds the table size.
C1_RegisterNeverTakesLiveSlot ==
    /\ [][RegisterOk =>
             /\ lastOp'.h \in Slots
             /\ JS_IsUndefined(callbacks[lastOp'.h])]_vars
    /\ [](Cardinality(Live(callbacks)) <= QJS_MAX_CALLBACKS /\ RefsMatchSlots)

\* A register filled the table by taking a slot in its middle, one that an
\* unregister had freed while the slots around it stayed Live.
C1_Witness ==
    /\ lastOp.op = "register" /\ lastOp.ret = "ok"
    /\ TableFull
    /\ lastOp.h # QJS_MAX_CALLBACKS - 1
    /\ lastOp.h # 0

\* C2: when all slots are Live, the register of a callable fails with
\* "callback table full" whatever the cursor position and changes no slot;
\* the register of a callable that follows a true unregister succeeds, as
\* does every register of a callable into a table that is not full.
C2_FullTableThenFreedSlot ==
    [][(RegisterStep /\ lastOp'.fn # 0) =>
          /\ TableFull =>
                /\ lastOp'.ret = "InternalError: callback table full"
                /\ UNCHANGED callbacks
          /\ lastOp'.after # "-" => lastOp'.ret = "ok"
          /\ ~TableFull => lastOp'.ret = "ok"]_vars

\* A register succeeded right after an unregister had freed one slot of a
\* full table, with the cursor away from slot 0.
C2_Witness ==
    /\ lastOp.op = "register" /\ lastOp.ret = "ok"
    /\ lastOp.after = "unregister_full"
    /\ TableFull
    /\ callback_next # 0

\* C3: a slot changes only Free to Live as the slot a successful register
\* returns, Live to Free as the handle of a true unregister, or Live to
\* Free in qjs_destroy's teardown; a successful register or unregister
\* changes that one slot; a failed register and a false unregister change no
\* slot, nor the cursor, nor the live count.
C3_SlotTransitions ==
    [][/\ \A i \in Slots :
              callbacks'[i] # callbacks[i] =>
                  \/ /\ JS_IsUndefined(callbacks[i]) /\ ~JS_IsUndefined(callbacks'[i])
                     /\ RegisterOk /\ lastOp'.h = i
                  \/ /\ ~JS_IsUndefined(callbacks[i]) /\ JS_IsUndefined(callbacks'[i])
                     /\ UnregisterStep /\ lastOp'.ret = "true" /\ lastOp'.h = i
                  \/ /\ ~JS_IsUndefined(callbacks[i]) /\ JS_IsUndefined(callbacks'[i])
                     /\ lastOp'.op = "destroy"
       /\ RegisterOk =>
              /\ JS_IsUndefined(callbacks[lastOp'.h])
              /\ callbacks'[lastOp'.h] = JSFunction(lastOp'.fn)
       /\ (UnregisterStep /\ lastOp'.ret = "true") =>
              /\ ~JS_IsUndefined(callbacks[lastOp'.h])
              /\ JS_IsUndefined(callbacks'[lastOp'.h])
       /\ (RegisterStep /\ lastOp'.ret # "ok") =>
              UNCHANGED <<callbacks, callback_next, callback_count>>
       /\ (UnregisterStep /\ lastOp'.ret = "false") =>
              UNCHANGED <<callbacks, callback_next, callback_count>>]_vars

\* An unregister of a Free slot in range returned false while other slots
\* were Live and the cursor had advanced.
C3_Witness ==
    /\ lastOp.op = "unregister" /\ lastOp.ret = "false"
    /\ lastOp.h \in Slots
    /\ callback_count > 0
    /\ callback_next # 0

\* C4: unregister returns true exactly when its handle is in [0, N) and the
\* slot is Live when it is called, and the slot is then Free; so an
\* unregister that follows a true unregister of the same handle returns
\* false.
C4_UnregisterTrueIffLive ==
    [][UnregisterStep =>
          /\ lastOp'.ret = "true" <=>
                 (lastOp'.h \in Slots /\ ~JS_IsUndefined(callbacks[lastOp'.h]))
          /\ lastOp'.ret = "true" => JS_IsUndefined(callbacks'[lastOp'.h])
          /\ lastOp'.ret # "true" => lastOp'.ret = "false"
          /\ (lastOp.op = "unregister" /\ lastOp.ret = "true"
                  /\ lastOp.h = lastOp'.h) => lastOp'.ret = "false"]_vars

\* The second of two unregisters of one handle returned false.
C4_Witness ==
    /\ lastOp.op = "unregister" /\ lastOp.ret = "false"
    /\ lastOp.after = "same"
    /\ lastOp.h \in Slots

\* C5: on a valid instance qjs_invoke_callback returns
\* QJS_ERR_INVALID_HANDLE for a handle outside [0, N) and
\* QJS_ERR_NOT_FUNCTION for a handle in range whose slot is Free, and in
\* both cases it calls no script function.
C5_InvokeRejectsBadHandle ==
    [][(InvokeStep /\ lastOp'.valid) =>
          /\ lastOp'.h \notin Slots =>
                /\ lastOp'.op = "invoke"
                /\ lastOp'.st = QJS_ERR_INVALID_HANDLE
                /\ lastOp'.called = 0 /\ pc' = "host"
          /\ (lastOp'.h \in Slots /\ JS_IsUndefined(callbacks[lastOp'.h])) =>
                /\ lastOp'.op = "invoke"
                /\ lastOp'.st = QJS_ERR_NOT_FUNCTION
                /\ lastOp'.called = 0 /\ pc' = "host"]_vars

\* An invoke of a Free slot in range was rejected while another slot was
\* Live.
C5_Witness ==
    /\ lastOp.op = "invoke" /\ lastOp.valid
    /\ lastOp.st = QJS_ERR_NOT_FUNCTION
    /\ lastOp.h \in Slots
    /\ callback_count > 0

\* C6 as claimed: invoking a handle no register has returned fails with
\* QJS_ERR_INVALID_HANDLE, and invoking a handle that was registered and
\* then unregistered fails with QJS_ERR_NOT_FUNCTION.
C6_NeverRegisteredIsInvalidHandle ==
    [][(InvokeStep /\ lastOp'.valid) =>
          /\ lastOp'.h \notin everReg => lastOp'.st = QJS_ERR_INVALID_HANDLE
          /\ (lastOp'.h \in everReg /\ JS_IsUndefined(callbacks[lastOp'.h])) =>
                lastOp'.st = QJS_ERR_NOT_FUNCTION]_vars

\* C6 amended: invoking a handle no register has returned fails with
\* QJS_ERR_INVALID_HANDLE when the handle is outside [0, N) and with
\* QJS_ERR_NOT_FUNCTION when it is in range; invoking a handle that was
\* registered and then unregistered fails with QJS_ERR_NOT_FUNCTION.
C6_NeverRegisteredByRange ==
    [][(InvokeStep /\ lastOp'.valid) =>
          /\ (lastOp'.h \notin everReg /\ lastOp'.h \notin Slots) =>
                lastOp'.st = QJS_ERR_INVALID_HANDLE
          /\ (lastOp'.h \notin everReg /\ lastOp'.h \in Slots) =>
                lastOp'.st = QJS_ERR_NOT_FUNCTION
          /\ (lastOp'.h \in everReg /\ JS_IsUndefined(callbacks[lastOp'.h])) =>
                lastOp'.st = QJS_ERR_NOT_FUNCTION]_vars

\* An invoke of a handle in range that no register had returned was
\* rejected as not a function, on an instance that had registered others.
C6_Witness ==
    /\ lastOp.op = "invoke" /\ lastOp.valid
    /\ lastOp.h \in Slots /\ lastOp.h \notin everReg
    /\ everReg # {}
    /\ lastOp.st = QJS_ERR_NOT_FUNCTION


\* A step in which qjs_invoke_callback returns after the script function
\* it called raised an exception.
ExceptionStep ==
    pc = "call" /\ lastOp'.op = "invoke" /\ lastOp'.exc \in Excs

\* What C7 says of the status, the output record and the log sink.
ExceptionReported ==
    /\ lastOp'.st = QJS_ERR_EXCEPTION
    /\ lastOp'.called = cur.fn
    /\ lastOp'.out \in {-1, INTEROP_TYPE_NULL}
    /\ g_log => lastOp'.log = << format_exception(lastOp'.exc.msg, lastOp'.exc.stack,
                                                  QJS_EXCEPTION_BUF_SIZE) >>
    /\ ~g_log => lastOp'.log = <<>>

\* C7 as claimed: when the script function raises, qjs_invoke_callback
\* returns QJS_ERR_EXCEPTION, leaves type Null in outResult, passes the
\* formatted exception to the log sink once when one is set, and the
\* handle's slot is Live afterwards.
C7_SlotLiveAfterException ==
    [][ExceptionStep =>
          /\ ExceptionReported
          /\ ~JS_IsUndefined(callbacks'[cur.h])]_vars

\* C7 amended: status, output record and log as claimed; the invoke itself
\* changes no slot, so the handle's slot still holds the function unless the
\* script unregistered that handle during the call, and an invoke of the
\* handle that follows, with the slot still holding the function, calls it
\* again.
C7_ExceptionLeavesTable ==
    [][/\ ExceptionStep =>
              /\ ExceptionReported
              /\ UNCHANGED <<callbacks, callback_next, callback_count, fnRef>>
              /\ ~cur.unreg => callbacks'[cur.h] = JSFunction(cur.fn)
       /\ ( /\ lastOp.op = "invoke" /\ lastOp.st = QJS_ERR_EXCEPTION
            /\ callbacks[lastOp.h] = JSFunction(lastOp.called)
            /\ InvokeStep /\ lastOp'.valid /\ lastOp'.h = lastOp.h
            /\ lastOp'.st # QJS_ERR_OUT_OF_MEMORY ) =>
              /\ lastOp'.op = "JS_Call"
              /\ lastOp'.called = lastOp.called]_vars

\* The function of a handle raised on two invokes in a row: the second
\* report went to the log sink, outResult was set to Null and the slot
\* still holds the function.
C7_Witness ==
    /\ lastOp.op = "invoke" /\ lastOp.st = QJS_ERR_EXCEPTION
    /\ lastOp.after = "exception"
    /\ Len(lastOp.log) = 1
    /\ lastOp.out = INTEROP_TYPE_NULL
    /\ callbacks[lastOp.h] = JSFunction(lastOp.called)

\* C8: qjs_cleanup_callbacks releases the reference of every Live slot
\* once, leaves every slot Free and the live count 0; run again on the table
\* it leaves, it releases nothing and leaves the same table.  After
\* qjs_destroy the table holds no reference at all.
C8_TeardownReleasesOnceIdempotent ==
    LET r1 == qjs_cleanup_callbacks(Table)
        r2 == qjs_cleanup_callbacks(r1.t)
    IN  /\ ctx # "NULL" =>
               /\ \A f \in Funcs :
                      r1.freed[f] =
                          Cardinality({i \in Slots : callbacks[i] = JSFunction(f)})
               /\ \A i \in Slots : JS_IsUndefined(r1.t.callbacks[i])
               /\ r1.t.callback_count = 0
        /\ r2.freed = NoRefs
        /\ r2.t = r1.t
        /\ (lastOp.op = "destroy" /\ lastOp.ret = "freed") =>
               /\ Live(callbacks) = {}
               /\ callback_count = 0
               /\ fnRef = NoRefs

\* qjs_destroy tore down a table with several Live slots.
C8_Witness ==
    /\ lastOp.op = "destroy" /\ lastOp.ret = "freed"
    /\ lastOp.released >= 2
    /\ Live(callbacks) = {}


\* C9 as claimed: whenever js_cs_invoke has returned to the script, every
\* block allocated for the call has been freed: the names, the argument
\* vector, the payloads and type hints of its elements, and the payload
\* and type hint of the host's return value.
C9_AllFreedOnReturn ==
    pc # "cs_invoke" => heap = {}

\* A step in which script code calls __cs_invoke, up to its return or to
\* its call of the host handler.
CsEntryStep ==
    /\ pc \in {"eval", "call"} /\ pc' \in {pc, "cs_invoke"}
    /\ lastOp' = lastOp

CsTypeErrors ==
    {"TypeError: cs_invoke requires 5+ args",
     "TypeError: typeName must be a string",
     "TypeError: callKind/isStatic/targetHandle must be ints",
     "TypeError: args must be an array"}

\* The sixth argument of argv is given and is neither undefined nor null.
CsSixthGiven(argv) ==
    Len(argv) > 5 /\ ~JS_IsUndefined(argv[6]) /\ ~JS_IsNull(argv[6])

\* C10 as claimed: with fewer than five arguments, or a sixth argument
\* that is given and is not an array, __cs_invoke throws a TypeError and
\* the host handler is not called; with five arguments or more and the
\* sixth absent, null or undefined the handler is called once with an
\* argument count of 0.
C10_ArgumentShape ==
    [][CsEntryStep =>
          LET argv == csOp'.argv
          IN  /\ (Len(argv) < 5 \/ (CsSixthGiven(argv) /\ ~JS_IsArray(argv[6]))) =>
                     csOp'.ret \in CsTypeErrors /\ csOp'.calls = 0
              /\ (Len(argv) >= 5 /\ ~CsSixthGiven(argv)) =>
                     csOp'.calls = 1 /\ csOp'.argCount = 0]_vars

\* C10 amended: the claim holds when a host handler is set and, in its
\* second part, when typeName converts to a string and callKind, isStatic
\* and targetHandle convert to integers.  With no handler set every call
\* throws the InternalError "invoke callback not set"; with a mandatory
\* argument that does not convert the call throws a TypeError and the
\* handler is not called.  The handler is not called again on return.
C10_ArgumentShapeWithHandler ==
    [][/\ CsEntryStep =>
              LET argv == csOp'.argv
                  converts == /\ JS_ToCString(argv[1]) # NULL
                              /\ \A i \in 3 .. 5 : JS_ToInt32(argv[i]).ok
              IN  /\ ~g_invoke =>
                         /\ csOp'.ret = "InternalError: invoke callback not set"
                         /\ csOp'.calls = 0
                  /\ (g_invoke /\ (Len(argv) < 5
                                   \/ (CsSixthGiven(argv) /\ ~JS_IsArray(argv[6])))) =>
                         csOp'.ret \in CsTypeErrors /\ csOp'.calls = 0
                  /\ (g_invoke /\ Len(argv) >= 5 /\ ~CsSixthGiven(argv)) =>
                         IF converts
                         THEN /\ csOp'.calls = 1 /\ csOp'.argCount = 0
                              /\ csOp'.ret = "-" /\ pc' = "cs_invoke"
                         ELSE csOp'.ret \in CsTypeErrors /\ csOp'.calls = 0
       /\ pc = "cs_invoke" => csOp'.calls = csOp.calls]_vars

\* __cs_invoke was called with null as sixth argument, called the host
\* handler with no argument, and has returned.
C10_Witness ==
    /\ pc = "eval"
    /\ Len(csOp.argv) = 6 /\ JS_IsNull(csOp.argv[6])
    /\ csOp.calls = 1 /\ csOp.argCount = 0


\* A step in which js_cs_invoke returns to the script after the host
\* handler returned.
CsReturnStep == pc = "cs_invoke" /\ pc' # "cs_invoke"

\* C11: when the host leaves a non-zero error code, js_cs_invoke throws an
\* error whose text is the host's message, or the fallback when the host
\* left none, and converts and returns no value; with error code 0 it
\* throws nothing and returns the conversion of the return value.
C11_HostErrorBecomesScriptError ==
    [][CsReturnStep =>
          LET res == csOp'.res
          IN  /\ res.error_code # 0 =>
                     /\ csOp'.ret = "InternalError: %s"
                     /\ csOp'.msg = IF res.error_msg # NULL THEN res.error_msg
                                    ELSE <<67, 35>>
                     /\ csOp'.value = JS_UNDEFINED
              /\ res.error_code = 0 =>
                     /\ csOp'.ret = "-"
                     /\ csOp'.msg = <<>>
                     /\ csOp'.value = interop_value_to_js(res.return_value)]_vars

\* The host left an error code, a message and a String return value: the
\* error thrown carries the message and no value is returned.
C11_Witness ==
    /\ pc = "eval" /\ csOp.calls = 1
    /\ csOp.res.error_code # 0 /\ csOp.res.error_msg = <<101>>
    /\ csOp.res.return_value.type = INTEROP_TYPE_STRING
    /\ csOp.ret = "InternalError: %s" /\ csOp.msg = <<101>>
    /\ csOp.value = JS_UNDEFINED

\* The positions 0 .. K-1 of the last js_za_invokeK whose argument is a
\* script string.
ZaStringPositions ==
    {i \in 0 .. zaOp.K - 1 : JS_IsString(zaOp.argv[i + 2])}

\* C12: for every entry point __zaInvoke1 .. __zaInvoke8 and every argument
\* position holding a string, the string borrowed from the engine is not
\* released while the host callback runs, and is released exactly once
\* between the callback's return and the entry point's return, whatever
\* the host left in the result.
C12_BorrowedStringsReleasedOnce ==
    zaOp.calls = 1 =>
        /\ pc = "za_invoke" =>
               /\ cstrs = ZaStringPositions
               /\ zaOp.released = <<>>
        /\ pc # "za_invoke" =>
               /\ cstrs = {}
               /\ Range(zaOp.released) = ZaStringPositions
               /\ Len(zaOp.released) = Cardinality(ZaStringPositions)

C12_Witness ==
    /\ pc = "eval" /\ zaOp.calls = 1 /\ zaOp.K = ZA_MAX_ARITY
    /\ ZaStringPositions = 0 .. ZA_MAX_ARITY - 1
    /\ zaOp.released = [i \in 1 .. ZA_MAX_ARITY |-> i - 1]
    /\ zaOp.result.type = INTEROP_TYPE_STRING
    /\ cstrs = {}

\* C13: for every K in 0 .. 8, __zaInvokeK called with fewer than K
\* arguments after the binding id throws and the host zero-alloc callback is
\* not called (a TypeError naming the arity when a callback is installed);
\* called with K or more, an installed callback and a binding id that
\* converts, the callback is called exactly once with that binding id,
\* argument count K and the conversions of the first K arguments in their
\* order, whatever follows them.
C13_ExactArity ==
    LET K == zaOp.K
        given == Len(zaOp.argv) - 1
    IN  zaOp.cb # "None" =>
            /\ given < K =>
                   /\ zaOp.calls = 0
                   /\ zaOp.ret # "-"
                   /\ zaOp.cb = "set" =>
                          zaOp.ret = "TypeError: __zaInvokeK requires bindingId + K args"
            /\ (given >= K /\ zaOp.cb = "set" /\ JS_ToInt32(zaOp.argv[1]).ok) =>
                   /\ zaOp.calls = 1
                   /\ zaOp.ret = "-"
                   /\ zaOp.bindingId = JS_ToInt32(zaOp.argv[1]).n
                   /\ zaOp.argCount = K
                   /\ Len(zaOp.args) = K
                   /\ \A i \in 1 .. K :
                          \E mallocOk \in BOOLEAN :
                              zaOp.args[i] =
                                  interop_value_from_js_noalloc(zaOp.argv[i + 1], mallocOk, 0)

C13_Witness ==
    /\ pc = "eval" /\ zaOp.K = 3 /\ Len(zaOp.argv) = 5
    /\ JS_IsString(zaOp.argv[5])
    /\ zaOp.calls = 1 /\ zaOp.argCount = 3
    /\ [i \in 1 .. 3 |-> zaOp.args[i].v] = <<1, 2, 3>>
    /\ zaOp.released = <<>>

\* C13 as stated: with K or more arguments after the binding id the
\* callback is called exactly once with the first K arguments, whatever
\* the binding id is and whether or not a callback is installed.
C13_ExactArityAnyCall ==
    LET K == zaOp.K
        given == Len(zaOp.argv) - 1
    IN  zaOp.cb # "None" =>
            /\ given < K => (zaOp.calls = 0 /\ zaOp.ret # "-")
            /\ given >= K =>
                   /\ zaOp.calls = 1
                   /\ zaOp.argCount = K
                   /\ \A i \in 1 .. K :
                          \E mallocOk \in BOOLEAN :
                              zaOp.args[i] =
                                  interop_value_from_js_noalloc(zaOp.argv[i + 1], mallocOk, 0)

\* C14: whatever K and whatever the arguments, vectors and colours
\* included, a __zaInvokeK call allocates no heap block to convert its
\* arguments, so no block allocated for them is outstanding once it
\* returned.
C14_NoAllocationForArguments ==
    /\ zaOp.alloc = <<>>
    /\ pc # "za_invoke" => heap = {}

\* The value converted is an object, not a function or an array, with no
\* handle and no struct marker, that neither the vector detector nor the
\* colour detector matches.
CodecUnmatchedPlainObject ==
    LET v == codec.v
        out == InteropValue(INTEROP_TYPE_NULL, 0)
        Absent(name) == JS_IsUndefined(JS_GetPropertyStr(v, name))
                        \/ JS_IsNull(JS_GetPropertyStr(v, name))
    IN  /\ v.t = "object"
        /\ Absent("__csHandle") /\ Absent("__struct") /\ Absent("__type")
        /\ ~try_convert_vector3(v, out).ok
        /\ ~try_convert_color(v, out, TRUE).ok

\* C15: the zero-allocation conversion leaves Null for a plain object with
\* no handle that matches neither the vector nor the colour detector, never
\* a JsonObject or a String; the general conversion of the same object
\* leaves a JsonObject holding its serialisation when the engine can
\* serialise it and the copy can be allocated, and Null when not.
C15_UnmatchedObjectNullOnZeroAlloc ==
    CodecUnmatchedPlainObject =>
        /\ codec.path = "noalloc" =>
               /\ codec.out = InteropValue(INTEROP_TYPE_NULL, 0)
               /\ codec.done => codec.back = JS_NULL
        /\ codec.path = "general" =>
               IF codec.mallocOk /\ JSON_stringify(codec.v) # NULL
               THEN /\ codec.out.type = INTEROP_TYPE_JSON_OBJECT
                    /\ codec.out.str = JSON_stringify(codec.v)
               ELSE codec.out = InteropValue(INTEROP_TYPE_NULL, 0)

C15_Witness ==
    /\ codec.v = JS_NewObject(<<JSProp("r", JS_NewInt32(5)), JSProp("g", JS_NewInt32(6)),
                                JSProp("a", JS_NewInt32(8)), JSProp("k", JS_NewInt32(9))>>)
    /\ codec.path = "noalloc" /\ codec.done
    /\ codec.out.type = INTEROP_TYPE_NULL
    /\ codec.back = JS_NULL

\* C15 as stated, with every allocation succeeding: the general conversion
\* of such an object always leaves a JsonObject.
C15_GeneralAlwaysJsonObject ==
    CodecUnmatchedPlainObject =>
        /\ codec.path = "noalloc" => codec.out.type = INTEROP_TYPE_NULL
        /\ (codec.path = "general" /\ codec.mallocOk) =>
               codec.out.type = INTEROP_TYPE_JSON_OBJECT

\* C16: for every script number n, either conversion from script leaves
\* Int32(n) when n equals its floor and lies in [INT32_MIN, INT32_MAX], and
\* Double(n) otherwise, whatever an undefined cast produces; the script
\* value built from the record is the number n again (NaN for NaN, and the
\* zero for the negative zero, which equals it).
C16_NumberClassification ==
    LET n == Dbl(codec.v.v, codec.v.f)
        integral == n.f \in {"", "-0", "+2^32", "-2^32", "+inf", "-inf"}
        inRange == n.f \in {"", ".5", "-0"} /\ ~(n.f = ".5" /\ n.v = INT32_MAX)
    IN  (JS_IsNumber(codec.v) /\ codec.path # "-") =>
            /\ IF integral /\ inRange
               THEN codec.out = InteropValue(INTEROP_TYPE_INT32, n.v)
               ELSE codec.out = [InteropValue(INTEROP_TYPE_DOUBLE, 0) EXCEPT !.f64 = n]
            /\ codec.done =>
                   /\ JS_IsNumber(codec.back)
                   /\ Dbl(codec.back.v, codec.back.f) = IF n.f = "-0" THEN Dbl(0, "") ELSE n

C16_Witness ==
    /\ codec.v = JS_NewFloat64(Dbl(INT32_MIN, "+2^32"))
    /\ codec.path = "general" /\ codec.done
    /\ codec.out.type = INTEROP_TYPE_DOUBLE
    /\ codec.out.f64 = Dbl(INT32_MIN, "+2^32")
    /\ codec.back = codec.v

\* The value converted has the property name, neither undefined nor null.
CodecHas(name) ==
    /\ ~JS_IsUndefined(JS_GetPropertyStr(codec.v, name))
    /\ ~JS_IsNull(JS_GetPropertyStr(codec.v, name))

CodecHasMarker == CodecHas("__struct") \/ CodecHas("__type")

\* C17: the general conversion classifies an object by the first rule that
\* matches, in the order array, handle, struct marker, plain object: with
\* every allocation succeeding, an array is an Array descriptor whatever
\* properties it has, an object whose handle converts to an integer is an
\* ObjectHandle whatever else it has, and an object with a struct marker is
\* never classified by the vector and colour heuristics.
C17_MarkerNeverVector ==
    (codec.path = "general" /\ codec.mallocOk /\ codec.v.t \in {"object", "array"}) =>
        /\ JS_IsArray(codec.v) => codec.out.type = INTEROP_TYPE_ARRAY
        /\ (~JS_IsArray(codec.v) /\ CodecHas("__csHandle")
              /\ JS_ToInt32(JS_GetPropertyStr(codec.v, "__csHandle")).ok) =>
               codec.out.type = INTEROP_TYPE_OBJECT_HANDLE
        /\ (~JS_IsArray(codec.v) /\ CodecHasMarker) =>
               codec.out.type \notin {INTEROP_TYPE_VECTOR3, INTEROP_TYPE_VECTOR4}

EvalReturnedWithBuffer ==
    lastOp.op = "eval" /\ evalOp.outBuf = "buf" /\ evalOp.outBufSize >= 1

\* C19: qjs_eval returns, and returns QJS_OK, QJS_ERR_INVALID_CTX or
\* QJS_ERR_EXCEPTION; when JS_Eval raised it returns QJS_ERR_EXCEPTION and
\* the buffer holds a diagnostic that is not empty; and for every
\* outBufSize >= 1 and every outcome no byte is written at or after
\* outBuf + outBufSize and a terminator lies within the buffer.
C19_EvalBufferContract ==
    /\ pc # "crashed"
    /\ lastOp.op = "eval" =>
           lastOp.st \in {QJS_OK, QJS_ERR_INVALID_CTX, QJS_ERR_EXCEPTION}
    /\ EvalReturnedWithBuffer =>
           /\ lastOp.st = QJS_ERR_EXCEPTION => CStr(evalOp.mem) # <<>>
           /\ \A i \in DOMAIN evalOp.mem : i > evalOp.outBufSize => evalOp.mem[i] = -1
           /\ \E i \in 1 .. evalOp.outBufSize : evalOp.mem[i] = 0

\* The last qjs_eval was given a buffer of at least one byte, JS_Eval raised
\* and format_exception filled the buffer.
EvalReportedException == EvalReturnedWithBuffer /\ lastOp.st = QJS_ERR_EXCEPTION

\* The exception has a message when its string conversion succeeds, and a
\* stack when its stack property converts to a string that is not empty.
HasMessage(exc) == exc.msg # NULL
HasStack(exc) == exc.stack # NULL /\ exc.stack # <<>>

\* The characters of text a buffer of size bytes holds before its
\* terminator.
Truncated(text, size) == SubSeq(text, 1, IF Len(text) < size - 1 THEN Len(text) ELSE size - 1)

\* C20: the report in the buffer is message, newline, stack when the
\* exception has both and they fit the buffer with the terminator; the
\* message alone (as much of it as the buffer holds) when it has both and
\* they do not fit, or when it has a message only; the stack when it has a
\* stack only; and the placeholder when it has neither.
C20_ReportPreference ==
    EvalReportedException =>
        LET exc == evalOp.exc
            size == evalOp.outBufSize
            report == CStr(evalOp.mem)
        IN  /\ HasMessage(exc) /\ HasStack(exc) /\ Len(exc.msg) + Len(exc.stack) + 2 <= size
                  => report = exc.msg \o <<NL>> \o exc.stack
            /\ HasMessage(exc) /\ HasStack(exc) /\ Len(exc.msg) + Len(exc.stack) + 2 > size
                  => report = Truncated(exc.msg, size)
            /\ HasMessage(exc) /\ ~HasStack(exc) => report = Truncated(exc.msg, size)
            /\ ~HasMessage(exc) /\ HasStack(exc) => report = Truncated(exc.stack, size)
            /\ ~HasMessage(exc) /\ ~HasStack(exc) => report = Truncated(UnknownException, size)

\* A message and a stack that do not fit a six-byte buffer together: the
\* report is the whole message.
C20_Witness ==
    /\ EvalReportedException
    /\ evalOp.outBufSize = MaxOutBufSize
    /\ evalOp.exc = [msg |-> <<69, 114, 114>>, stack |-> <<97, 116, 32, 120>>]
    /\ CStr(evalOp.mem) = <<69, 114, 114>>

\* The number of slots from the cursor next up to slot i, going forward and
\* wrapping.
CyclicDistance(next, i) == (i - next + QJS_MAX_CALLBACKS) % QJS_MAX_CALLBACKS

\* C24: a successful register returns the first Free slot in cyclic order
\* from the cursor, every slot from the cursor up to it being Live, and
\* leaves the cursor at (returned slot + 1) mod N; the cursor is always in
\* [0, N).  So a register that follows a true unregister of handle u does
\* not return u while a Free slot lies between the cursor and u.
C24_CursorScanOrder ==
    /\ [][RegisterOk =>
             LET slot == lastOp'.h
             IN  /\ slot \in Slots
                 /\ JS_IsUndefined(callbacks[slot])
                 /\ \A i \in Slots :
                        CyclicDistance(callback_next, i) < CyclicDistance(callback_next, slot)
                            => ~JS_IsUndefined(callbacks[i])
                 /\ callback_next' = (slot + 1) % QJS_MAX_CALLBACKS
                 /\ (/\ lastOp.op = "unregister" /\ lastOp.ret = "true"
                     /\ \E i \in Slots :
                            /\ JS_IsUndefined(callbacks[i])
                            /\ CyclicDistance(callback_next, i) <
                                   CyclicDistance(callback_next, lastOp.h))
                        => slot # lastOp.h]_vars
    /\ [](callback_next \in Slots)

\* With slots 0 .. N-2 registered, handle 0 was unregistered and the next
\* register returned N-1, the slot under the cursor, leaving slot 0 Free and
\* the cursor wrapped to 0.
C24_Witness ==
    /\ lastOp.op = "register" /\ lastOp.ret = "ok"
    /\ lastOp.after = "unregister"
    /\ lastOp.h = QJS_MAX_CALLBACKS - 1
    /\ callback_next = 0
    /\ JS_IsUndefined(callbacks[0])
    /\ Live(callbacks) = Slots \ {0}

\* C28: in every state callback_count is the number of slots that hold a
\* function and lies in [0, N]; a created instance starts with the count 0,
\* every slot Free and the cursor 0.
C28_CountIsLiveSlots ==
    /\ callback_count = Cardinality(Live(callbacks))
    /\ callback_count \in 0 .. QJS_MAX_CALLBACKS
    /\ lastOp.op = "create" =>
           /\ callback_count = 0
           /\ Live(callbacks) = {}
           /\ callback_next = 0

\* The count went up to the table size and came down again: the table is
\* not full, not empty, and has been full.
C28_Witness ==
    /\ lastOp.op = "unregister" /\ lastOp.ret = "true" /\ lastOp.wasFull
    /\ callback_count = QJS_MAX_CALLBACKS - 1
    /\ QJS_MAX_CALLBACKS - 1 > 0

\* C30: in every state callback_free_head is -1; so every successful
\* register takes its slot by the cursor scan, which tests that the slot is
\* Free, and never from the free list.
C30_FreeListNeverUsed ==
    /\ [](callback_free_head = -1)
    /\ [][RegisterOk =>
             /\ callback_free_head < 0
             /\ lastOp'.h = ScanSlot(callbacks, callback_next)
             /\ JS_IsUndefined(callbacks[lastOp'.h])]_vars

\* An unregister freed slot 0 of a full table and the register after it
\* got slot 0 back from the scan, which went round the whole table from
\* the cursor 1; the free-list head was -1 throughout.
C30_Witness ==
    /\ lastOp.op = "register" /\ lastOp.ret = "ok"
    /\ lastOp.after = "unregister_full"
    /\ lastOp.h = 0
    /\ callback_next = 1
    /\ callback_free_head = -1
    /\ callback_count = QJS_MAX_CALLBACKS

\* The places of block b in the sequence of blocks q.
Places(q, b) == {k \in DOMAIN q : q[k] = b}

\* The blocks the elements of the argument vector args hold.
ArgBlocks(args) ==
    UNION {Range(HeldBlocks(args[i], i - 1)) : i \in DOMAIN args}

\* C25: while g_callbacks.invoke runs, every element of the script's
\* argument array has its record in the vector, and the vector and every
\* string payload and type hint its records hold are allocated; when
\* js_cs_invoke returns after the host call it has freed each of those
\* payloads and hints once, the vector once, and the vector after all of
\* them, and none of them is still allocated.
C25_ArgumentsOutliveHostCall ==
    /\ [](pc = "cs_invoke" =>
             /\ csOp.calls = 1
             /\ csCall.arg_count = Len(csCall.args)
             /\ CsSixthGiven(csOp.argv) => Len(csCall.args) = Len(csOp.argv[6].e)
             /\ ~CsSixthGiven(csOp.argv) => csCall.arg_count = 0
             /\ csCall.vec = (csCall.arg_count > 0)
             /\ csCall.vec => Block("args", 0) \in heap
             /\ ArgBlocks(csCall.args) \subseteq heap)
    /\ [][CsReturnStep =>
             LET freed == csOp'.freed
                 vector == Block("args", 0)
             IN  /\ Cardinality(Places(freed, vector)) = IF csCall.vec THEN 1 ELSE 0
                 /\ \A b \in ArgBlocks(csCall.args) :
                        /\ Cardinality(Places(freed, b)) = 1
                        /\ \A k \in Places(freed, b), v \in Places(freed, vector) : k < v
                        /\ b \notin heap'
                 /\ vector \notin heap']_vars

\* js_cs_invoke returned from a host call made with a colour in the
\* argument array: the colour's type hint was freed and the vector after it.
C25_Witness ==
    /\ pc # "cs_invoke"
    /\ csOp.calls = 1 /\ csOp.argCount >= 1
    /\ Block("typeHint", 0) \in Range(csOp.alloc)
    /\ \E k \in DOMAIN csOp.freed :
           /\ csOp.freed[k] = Block("typeHint", 0)
           /\ k < Len(csOp.freed)
           /\ csOp.freed[Len(csOp.freed)] = Block("args", 0)

\* C26: while the function called by qjs_invoke_callback is executing, a
\* strong reference to it is held by a table slot or by the invoker.  The
\* invoker copies the slot's value without JS_DupValue, so the references
\* held are those of the table.
C26_RunningFunctionReferenced ==
    cur # NoCall => fnRef[cur.fn] >= 1

ConsoleStep ==
    pc \in {"eval", "call", "jobs"} /\ scriptOp' # scriptOp /\ scriptOp'.op = "console"

\* C22 as claimed: with a log sink installed, each call of console.log
\* makes one call of the sink whatever the number of its arguments.
C22_OneSinkCallPerInvocation ==
    [][(ConsoleStep /\ g_log) => Len(scriptOp'.log) = 1]_vars

\* The arguments of argv that have a string conversion, in order.
Stringified(argv) ==
    LET conv == SelectSeq(argv, LAMBDA a : JS_ToCString(a) # NULL)
    IN  [i \in 1 .. Len(conv) |-> JS_ToCString(conv[i])]

\* C22 amended: with a log sink installed, each call of console.log makes
\* one call of the sink per argument, in the order of the arguments, each
\* with the string conversion of that argument; an argument that has no
\* string conversion is skipped, so a call with n arguments that all
\* convert makes n calls and a call with none makes none.  With no sink
\* installed no call is made.
C22_OneSinkCallPerArgument ==
    [][ConsoleStep =>
          LET argv == scriptOp'.argv
          IN  /\ g_log => scriptOp'.log = Stringified(argv)
              /\ (g_log /\ \A i \in DOMAIN argv : JS_ToCString(argv[i]) # NULL) =>
                     /\ Len(scriptOp'.log) = Len(argv)
                     /\ \A i \in DOMAIN argv : scriptOp'.log[i] = JS_ToCString(argv[i])
              /\ ~g_log => scriptOp'.log = <<>>
              /\ scriptOp'.released = <<>>]_vars

\* console.log("a", 5) made two calls of the sink, "a" and then "5".
C22_Witness ==
    /\ scriptOp.op = "console"
    /\ scriptOp.argv = <<JS_NewString(<<97>>), JS_NewInt32(5)>>
    /\ scriptOp.log = << <<97>>, <<53>> >>

\* A step in which script code calls __releaseHandle.
ReleaseStep ==
    pc \in {"eval", "call", "jobs"} /\ scriptOp' # scriptOp /\ scriptOp'.op = "release"

\* C23: __releaseHandle(h) calls the release notifier once, with the int32
\* conversion of h, when that is positive and a notifier is installed (so
\* once with h for a positive int32 h); it makes no call when the
\* conversion is zero or negative, when h does not convert, when no
\* argument is given and when no notifier is installed.  It never calls
\* the log sink.
C23_ReleaseNotifiesPositive ==
    [][ReleaseStep =>
          LET argv == scriptOp'.argv
              conv == JS_ToInt32(argv[1])
          IN  /\ argv = <<>> => scriptOp'.released = <<>>
              /\ ~g_release_handle => scriptOp'.released = <<>>
              /\ (argv # <<>> /\ (~conv.ok \/ conv.n <= 0)) => scriptOp'.released = <<>>
              /\ (argv # <<>> /\ conv.ok /\ conv.n > 0 /\ g_release_handle) =>
                     scriptOp'.released = <<conv.n>>
              /\ \A h \in {1, 7, INT32_MAX} :
                     (argv # <<>> /\ argv[1] = JS_NewInt32(h) /\ g_release_handle) =>
                         scriptOp'.released = <<h>>
              /\ scriptOp'.log = <<>>]_vars

\* __releaseHandle(7) notified the host of handle 7, once.
C23_Witness ==
    /\ scriptOp.op = "release"
    /\ scriptOp.argv = <<JS_NewInt32(7)>>
    /\ scriptOp.released = <<7>>

\* A step in which the host calls evaluate, invoke or the pending-job pump
\* with a pointer that is not a valid instance: NULL, or the pointer of an
\* instance it has destroyed.
InvalidEntryStep ==
    /\ pc = "host"
    /\ lastOp' # lastOp
    /\ lastOp'.op \in {"eval", "invoke", "jobs"}
    /\ ~lastOp'.valid

\* C21: evaluate, invoke and the pending-job pump called on an instance
\* that was never created or has been destroyed return InvalidContext to
\* the host, run no script and change no callback slot; invoke reports
\* InvalidContext whatever the handle, in range or not.
C21_InvalidInstanceFails ==
    [][InvalidEntryStep =>
          /\ lastOp'.st = QJS_ERR_INVALID_CTX
          /\ lastOp'.ret # "trap"
          /\ pc' = "host"
          /\ callbacks' = callbacks
          /\ UNCHANGED <<callback_next, callback_count, fnRef, cur>>]_vars

\* A step in which the host calls qjs_destroy.
DestroyStep == pc = "host" /\ lastOp' # lastOp /\ lastOp'.op = "destroy"

\* The position of the statement named name in steps, 0 when absent.
StepAt(steps, name) ==
    IF \E k \in DOMAIN steps : steps[k].step = name
    THEN CHOOSE k \in DOMAIN steps : steps[k].step = name
    ELSE 0

\* The order C27 states for the statements of a destroy of an instance
\* whose table was cbs: the instance is marked invalid first, every Live
\* slot is released once, after that and before the context is freed, no
\* reference is released after the context is freed, and the runtime is
\* freed after the context.
DestroyInOrder(steps, cbs) ==
    /\ steps # <<>> /\ steps[1] = Step("magic = 0")
    /\ StepAt(steps, "JS_FreeContext") > 0
    /\ StepAt(steps, "JS_FreeRuntime") > StepAt(steps, "JS_FreeContext")
    /\ \A i \in Live(cbs) :
          Cardinality({k \in DOMAIN steps :
                          steps[k] = [step |-> "JS_FreeValue", slot |-> i]}) = 1
    /\ \A k \in DOMAIN steps :
          steps[k].step = "JS_FreeValue" =>
              /\ steps[k].slot \in Live(cbs)
              /\ 1 < k /\ k < StepAt(steps, "JS_FreeContext")

\* C27: qjs_destroy on a valid instance marks it invalid, then releases
\* every Live callback reference, then frees the context and the runtime,
\* with no release after the context is freed; qjs_destroy on an instance
\* that is not valid (NULL, or one already destroyed) returns to the host
\* and changes nothing.
C27_DestroyOrder ==
    [][DestroyStep =>
          /\ lastOp'.ret \in {"noop", "freed"}
          /\ lastOp'.ret = "freed" =>
                /\ is_valid("inst")
                /\ DestroyInOrder(lastOp'.steps, callbacks)
                /\ lastOp'.released = Cardinality(Live(callbacks))
                /\ magic' = 0 /\ mem' = "freed" /\ Live(callbacks') = {}
          /\ ~is_valid("inst") =>
                /\ lastOp'.ret = "noop"
                /\ pc' = "host"
                /\ UNCHANGED <<magic, rt, ctx, mem, callbacks, callback_next,
                               callback_count, callback_free_head, fnRef>>]_vars

====
